---- MODULE Spec2Model ----
(***************************************************************************)
(* Two-Man Spades: the game state machine of src/app.py with the rules of  *)
(* src/utilities/gameplay_logic.py, custom_rules.py and computer_logic.py. *)
(*                                                                         *)
(* The session's game dict is the record variable `game`; the HTTP         *)
(* handlers are the actions.  `request` is the route of the last request   *)
(* ("new_game" at the start) and `response` its reply ("ok" for a 200,     *)
(* "error" for a 400).  Display strings (message, explanations) are left   *)
(* out: no handler reads them.                                             *)
(*                                                                         *)
(* Python's None is <<>> for optional numbers, cards and records (a value  *)
(* x is <<x>>), and the string "None" for optional side names.             *)
(* List indexes are 0-based at the interface, as in the requests, and      *)
(* 1-based inside sequences.                                               *)
(*                                                                         *)
(* Spec is the whole game on short deals.  TrickSpec, PlaySpec, SettleSpec *)
(* and EndSpec run the same handlers from states late in a hand of the     *)
(* program's size; DiscardSpec runs the scoring of the discards.           *)
(***************************************************************************)
EXTENDS Integers, Sequences, FiniteSets, TLC

VARIABLES game, request, response

vars == <<game, request, response>>

(***************************************************************************)
(* Bounds of the model.  DealSize stands for the 11 cards dealt to each    *)
(* side (deck[:11], deck[11:22]); MaxHands caps hand_number.               *)
(***************************************************************************)
DealSize == 3

MaxHands == 2

None == <<>>

Some(x) == <<x>>

IsNone(o) == o = <<>>

(***************************************************************************)
(* Sequence helpers that follow Python's list semantics.                   *)
(***************************************************************************)
\* list.pop(i) leaves the list without its element at (1-based) position i
RemoveAt(s, i) == [k \in 1..(Len(s) - 1) |-> IF k < i THEN s[k] ELSE s[k + 1]]

\* min(s, key=...): Python returns the first element with the least key;
\* k is the function from the elements to their keys
MinFirst(s, k) ==
    s[CHOOSE i \in 1..Len(s) :
        \A j \in 1..Len(s) : /\ k[s[i]] <= k[s[j]]
                             /\ (j < i => k[s[j]] > k[s[i]])]

\* max(s, key=...): Python returns the first element with the greatest key
MaxFirst(s, k) ==
    s[CHOOSE i \in 1..Len(s) :
        \A j \in 1..Len(s) : /\ k[s[i]] >= k[s[j]]
                             /\ (j < i => k[s[j]] < k[s[i]])]

(***************************************************************************)
(* gameplay_logic.py: cards and deck                                       *)
(***************************************************************************)
Suits == <<"S", "H", "D", "C">>

Ranks == <<"2", "3", "4", "5", "6", "7", "8", "9", "10", "J", "Q", "K", "A">>

\* position of a rank in Ranks: "2" is 1, ..., "A" is 13
RankIndex(rank) == CHOOSE i \in 1..Len(Ranks) : Ranks[i] = rank

get_card_value(rank) ==
    IF rank = "A" THEN 14
    ELSE IF rank = "K" THEN 13
    ELSE IF rank = "Q" THEN 12
    ELSE IF rank = "J" THEN 11
    ELSE RankIndex(rank) + 1

Card(rank, suit) == [rank |-> rank, suit |-> suit, value |-> get_card_value(rank)]

create_deck ==
    [n \in 1..52 |-> Card(Ranks[((n - 1) % 13) + 1], Suits[((n - 1) \div 13) + 1])]

suit_order(suit) ==
    CASE suit = "C" -> 0 [] suit = "D" -> 1 [] suit = "H" -> 2 [] suit = "S" -> 3

\* sorted(hand, key=(suit_order, value)); the cards of a hand are distinct
SortKey(c) == suit_order(c.suit) * 100 + c.value

RECURSIVE sort_hand(_)
sort_hand(hand) ==
    IF hand = <<>> THEN <<>>
    ELSE LET m == MinFirst(hand, [c \in {hand[k] : k \in 1..Len(hand)} |-> SortKey(c)])
             i == CHOOSE k \in 1..Len(hand) : hand[k] = m
         IN <<m>> \o sort_hand(RemoveAt(hand, i))

(***************************************************************************)
(* custom_rules.py: the scoring rules                                      *)
(***************************************************************************)
\* a faulty variant of get_discard_value: the ace counts 14, as it does in a
\* trick; C15 can be seen to depend on the ace counting 1
get_discard_value_with_ace_high(card) ==
    IF card.rank = "A" THEN 14
    ELSE IF card.rank = "J" THEN 11
    ELSE IF card.rank = "Q" THEN 12
    ELSE IF card.rank = "K" THEN 13
    ELSE RankIndex(card.rank) + 1

get_discard_value(card) ==
    IF card.rank = "A" THEN 1
    ELSE IF card.rank = "J" THEN 11
    ELSE IF card.rank = "Q" THEN 12
    ELSE IF card.rank = "K" THEN 13
    ELSE RankIndex(card.rank) + 1

\* a faulty variant of assign_even_odd_at_game_start: the even side leads the
\* first trick; C29 can be seen to depend on the odd side leading
assign_even_odd_with_even_leading ==
    { [player_parity |-> "even", computer_parity |-> "odd", first_leader |-> "player"],
      [player_parity |-> "odd", computer_parity |-> "even", first_leader |-> "computer"] }

\* the (player_parity, computer_parity, first_leader) triples of the coin flip
assign_even_odd_at_game_start ==
    { [player_parity |-> "even", computer_parity |-> "odd", first_leader |-> "computer"],
      [player_parity |-> "odd", computer_parity |-> "even", first_leader |-> "player"] }

\* (is_special, bags_to_remove)
is_special_card(card) ==
    IF card.rank = "7" /\ card.suit = "D" THEN <<TRUE, 2>>
    ELSE IF card.rank = "10" /\ card.suit = "C" THEN <<TRUE, 1>>
    ELSE <<FALSE, 0>>

check_blind_bidding_eligibility(player_score, computer_score) ==
    LET player_deficit == computer_score - player_score
        computer_deficit == player_score - computer_score
    IN [player_eligible |-> player_deficit >= 100,
        computer_eligible |-> computer_deficit >= 100]

\* a faulty variant of apply_blind_scoring: only a blind bid that is made is
\* doubled; C17 can be seen to depend on the doubling of the penalty
apply_blind_scoring_doubling_success_only(base_points, blind_bid, actual_tricks) ==
    IF actual_tricks >= blind_bid THEN base_points * 2 ELSE base_points

apply_blind_scoring(base_points, blind_bid, actual_tricks) ==
    IF actual_tricks >= blind_bid THEN base_points * 2 ELSE base_points * 2

\* sum of the reductions of the special cards among the cards of a sequence
RECURSIVE SpecialReduction(_)
SpecialReduction(cards) ==
    IF cards = <<>> THEN 0
    ELSE is_special_card(Head(cards))[2] + SpecialReduction(Tail(cards))

check_special_cards_in_discard(player_discard, computer_discard, discard_winner) ==
    LET total_reduction == SpecialReduction(<<player_discard, computer_discard>>)
    IN [player_bag_reduction |->
            IF total_reduction > 0 /\ discard_winner = "player" THEN total_reduction ELSE 0,
        computer_bag_reduction |->
            IF total_reduction > 0 /\ discard_winner # "player" THEN total_reduction ELSE 0]

check_special_cards_in_trick(trick, winner) ==
    [bag_reduction |-> SpecialReduction([i \in 1..Len(trick) |-> trick[i].card])]

calculate_discard_score_with_winner(player_discard, computer_discard, player_parity, computer_parity) ==
    LET player_value == get_discard_value(player_discard)
        computer_value == get_discard_value(computer_discard)
        total == player_value + computer_value
        is_double == \/ player_discard.suit = computer_discard.suit
                     \/ player_discard.rank = computer_discard.rank
        base_points == IF is_double THEN 20 ELSE 10
        is_total_even == (total % 2 = 0)
        player_wins == \/ is_total_even /\ player_parity = "even"
                       \/ ~is_total_even /\ player_parity = "odd"
        computer_wins == /\ ~player_wins
                         /\ \/ is_total_even /\ computer_parity = "even"
                            \/ ~is_total_even /\ computer_parity = "odd"
    IN [player_bonus |-> IF player_wins THEN base_points ELSE 0,
        computer_bonus |-> IF computer_wins THEN base_points ELSE 0,
        total |-> total,
        is_double |-> is_double,
        winner |-> IF player_wins THEN "player"
                   ELSE IF computer_wins THEN "computer" ELSE "None"]

\* a faulty variant of apply_bags_penalty: the penalty starts above 7 bags;
\* C39 can be seen to depend on the penalty at 7
apply_bags_penalty_above_seven(score, bags) ==
    IF bags > 7 THEN <<score - 100 * (bags \div 7), bags % 7>>
    ELSE IF bags <= -5 THEN <<score + 100 * ((-bags) \div 5), -((-bags) % 5)>>
    ELSE <<score, bags>>

\* a faulty variant of apply_bags_penalty: each rollover is applied once, an
\* "if" in place of each "while"; C18 can be seen to depend on the repetition
apply_bags_penalty_once(score, bags) ==
    IF bags >= 7 THEN <<score - 100, bags - 7>>
    ELSE IF bags <= -5 THEN <<score + 100, bags + 5>>
    ELSE <<score, bags>>

\* (score, bags) after the two while loops
RECURSIVE apply_bags_penalty(_, _)
apply_bags_penalty(score, bags) ==
    IF bags >= 7 THEN apply_bags_penalty(score - 100, bags - 7)
    ELSE IF bags <= -5 THEN apply_bags_penalty(score + 100, bags + 5)
    ELSE <<score, bags>>

reduce_bags_safely(current_bags, reduction) == current_bags - reduction

\* a faulty variant of HandPoints: a failed nil adds no bags; C16 can be seen
\* to depend on the bags of a failed nil
HandPoints_without_bags_for_failed_nil(bid, actual, is_blind) ==
    IF bid = 0
    THEN IF actual = 0 THEN <<100, 0>> ELSE <<-100, 0>>
    ELSE IF actual >= bid
         THEN <<IF is_blind THEN apply_blind_scoring(bid * 10, bid, actual) ELSE bid * 10,
                actual - bid>>
         ELSE <<IF is_blind THEN apply_blind_scoring(-(bid * 10), bid, actual) ELSE -(bid * 10),
                0>>

\* a faulty variant of HandPoints: every overtrick is also worth a point; C38
\* can be seen to depend on overtricks counting as bags only
HandPoints_with_a_point_per_overtrick(bid, actual, is_blind) ==
    IF bid = 0
    THEN IF actual = 0 THEN <<100, 0>> ELSE <<-100, actual>>
    ELSE IF actual >= bid
         THEN <<(IF is_blind THEN apply_blind_scoring(bid * 10, bid, actual) ELSE bid * 10)
                   + (actual - bid),
                actual - bid>>
         ELSE <<IF is_blind THEN apply_blind_scoring(-(bid * 10), bid, actual) ELSE -(bid * 10),
                0>>

\* (hand_points, bags_added) of one side
HandPoints(bid, actual, is_blind) ==
    IF bid = 0
    THEN IF actual = 0 THEN <<100, 0>> ELSE <<-100, actual>>
    ELSE IF actual >= bid
         THEN <<IF is_blind THEN apply_blind_scoring(bid * 10, bid, actual) ELSE bid * 10,
                actual - bid>>
         ELSE <<IF is_blind THEN apply_blind_scoring(-(bid * 10), bid, actual) ELSE -(bid * 10),
                0>>

calculate_hand_scores_with_bags(g) ==
    LET player_bid == g.player_bid[1]
        computer_bid == g.computer_bid[1]
        is_player_blind == g.blind_bid = g.player_bid /\ ~IsNone(g.blind_bid)
        is_computer_blind == g.computer_blind_bid = g.computer_bid
                             /\ ~IsNone(g.computer_blind_bid)
        p == HandPoints(player_bid, g.player_tricks, is_player_blind)
        c == HandPoints(computer_bid, g.computer_tricks, is_computer_blind)
        pfinal == apply_bags_penalty(g.player_score + p[1], g.player_bags + p[2])
        cfinal == apply_bags_penalty(g.computer_score + c[1], g.computer_bags + c[2])
    IN [g EXCEPT !.player_bags = pfinal[2],
                 !.computer_bags = cfinal[2],
                 !.player_score = pfinal[1],
                 !.computer_score = cfinal[1],
                 !.player_trick_special_cards = 0,
                 !.computer_trick_special_cards = 0]

(***************************************************************************)
(* computer_logic.py: the computer's strategy.  Fractions are carried as   *)
(* exact integers: hand strength in hundredths of a trick, the bidding     *)
(* expectation in millionths.                                              *)
(***************************************************************************)
SINGLETON_SPECIAL_PRIORITY == 1000

SPECIAL_CARD_PROTECTION == -100

SPADE_DISCARD_PENALTY == 3

PARITY_CONSIDERATION == 1

\* BID_ACCURACY_BOOST = 0.8, in hundredths
BID_ACCURACY_BOOST == 80

\* NIL_STRICTNESS = 0.8, in hundredths
NIL_STRICTNESS == 80

DEFAULT_BLIND_BID == 5

IsSpecial(card) == is_special_card(card)[1]

\* the 1-based positions of a hand, in order
Positions(hand) == [i \in 1..Len(hand) |-> i]

SuitCount(hand, suit) == Len(SelectSeq(hand, LAMBDA c : c.suit = suit))

\* analyze_hand_strength: sure_tricks + probable_tricks + special_card_bonus,
\* each in hundredths
analyze_hand_strength(hand) ==
    LET special_card_bonus == 20 * Len(SelectSeq(hand, IsSpecial))
        spade_count == SuitCount(hand, "S")
        count_sure == IF spade_count >= 5 THEN 300
                      ELSE IF spade_count = 4 THEN 200
                      ELSE IF spade_count = 3 THEN 150
                      ELSE IF spade_count = 2 THEN 80
                      ELSE IF spade_count = 1 THEN 30 ELSE 0
        count_probable == IF spade_count >= 5 THEN 200
                          ELSE IF spade_count = 4 THEN 100
                          ELSE IF spade_count = 3 THEN 50
                          ELSE IF spade_count = 2 THEN 40 ELSE 0
        ace_spades == Len(SelectSeq(hand, LAMBDA c : c.suit = "S" /\ c.value = 14))
        king_spades == Len(SelectSeq(hand, LAMBDA c : c.suit = "S" /\ c.value = 13))
        queen_spades == Len(SelectSeq(hand, LAMBDA c : c.suit = "S" /\ c.value = 12))
        aces_in(suit) == Len(SelectSeq(hand, LAMBDA c : c.suit = suit /\ c.value = 14))
        kings_in(suit) == Len(SelectSeq(hand, LAMBDA c : c.suit = suit /\ c.value = 13))
        suit_sure(suit) ==
            (IF aces_in(suit) > 0 THEN 80 * aces_in(suit) ELSE 0)
            + (IF kings_in(suit) > 0 /\ aces_in(suit) > 0 THEN 60 * kings_in(suit) ELSE 0)
        suit_probable(suit) ==
            (IF kings_in(suit) > 0 /\ aces_in(suit) = 0
             THEN IF SuitCount(hand, suit) >= 3 THEN 50 * kings_in(suit)
                  ELSE 30 * kings_in(suit)
             ELSE 0)
            + (IF SuitCount(hand, suit) >= 4 THEN (SuitCount(hand, suit) - 3) * 25 ELSE 0)
        total_high_cards ==
            aces_in("H") + aces_in("D") + aces_in("C")
            + kings_in("H") + kings_in("D") + kings_in("C") + ace_spades + king_spades
        high_sure == IF total_high_cards >= 4 THEN 50
                     ELSE IF total_high_cards >= 3 THEN 30 ELSE 0
        high_probable == IF total_high_cards >= 4 THEN 30
                         ELSE IF total_high_cards >= 3 THEN 20
                         ELSE IF total_high_cards >= 2 THEN 20 ELSE 0
        void_suits == Cardinality({su \in {"H", "D", "C"} : SuitCount(hand, su) = 0})
        sure_tricks == count_sure + 30 * ace_spades + 20 * king_spades
                       + suit_sure("H") + suit_sure("D") + suit_sure("C") + high_sure
        probable_tricks == count_probable + 20 * queen_spades
                           + suit_probable("H") + suit_probable("D") + suit_probable("C")
                           + high_probable
                           + (IF void_suits > 0 /\ spade_count >= 2 THEN void_suits * 40 ELSE 0)
    IN sure_tricks + probable_tricks + special_card_bonus

\* the discard score the loop of computer_discard_strategy gives the card at i
DiscardScore(hand, i, computer_parity) ==
    LET card == hand[i]
        is_singleton == SuitCount(hand, card.suit) = 1
        discard_value == get_discard_value(card)
    IN IF is_singleton /\ card.suit # "S" /\ IsSpecial(card)
       THEN SINGLETON_SPECIAL_PRIORITY
       ELSE (IF ~(is_singleton /\ card.suit # "S") /\ IsSpecial(card)
             THEN SPECIAL_CARD_PROTECTION ELSE 0)
            + (IF card.suit = "S" THEN -(card.value * SPADE_DISCARD_PENALTY)
               ELSE 15 - card.value)
            + (IF computer_parity = "even" /\ discard_value % 2 = 1
               THEN PARITY_CONSIDERATION
               ELSE IF computer_parity = "odd" /\ discard_value % 2 = 0
                    THEN PARITY_CONSIDERATION ELSE 0)

\* the position (1-based) of the card to discard
computer_discard_strategy(computer_hand, g) ==
    MaxFirst(Positions(computer_hand),
             [i \in 1..Len(computer_hand) |->
                 DiscardScore(computer_hand, i, g.computer_parity)])

should_bid_nil(hand, g) ==
    LET spades == SelectSeq(hand, LAMBDA c : c.suit = "S")
        twos == SelectSeq(hand, LAMBDA c : c.rank = "2")
        other_suits == SelectSeq(hand, LAMBDA c : c.suit # "S")
        low_cards == SelectSeq(other_suits, LAMBDA c : c.value <= 7)
        high_other_suits == SelectSeq(other_suits, LAMBDA c : c.value >= 13)
    IN /\ ~(analyze_hand_strength(hand) > NIL_STRICTNESS)
       /\ ~(Len(spades) > 3)
       /\ \A k \in 1..Len(spades) : ~(spades[k].value >= 11)
       /\ ~(Len(twos) < 2)
       /\ ~(Len(low_cards) < Len(other_suits) - 1)
       /\ ~(Len(high_other_suits) > 0)
       /\ ~(g.player_bid = Some(0))
       /\ ~(g.computer_score >= g.player_score - 50)
       /\ g.computer_score < g.player_score - 80

\* should_bid_blind without the eligibility test: always blind
should_bid_blind_without_eligibility(hand, g) == <<TRUE, DEFAULT_BLIND_BID>>

\* (should_blind, blind_bid_amount)
should_bid_blind(hand, g) ==
    IF ~check_blind_bidding_eligibility(g.player_score, g.computer_score).computer_eligible
    THEN <<FALSE, 0>>
    ELSE <<TRUE, DEFAULT_BLIND_BID>>

Max(a, b) == IF a >= b THEN a ELSE b

Min(a, b) == IF a <= b THEN a ELSE b

\* Python's round() of a non-negative number given in millionths: half to even
RoundMillionths(x) ==
    LET whole == x \div 1000000
        frac == x % 1000000
    IN IF frac > 500000 THEN whole + 1
       ELSE IF frac < 500000 THEN whole
       ELSE IF whole % 2 = 0 THEN whole ELSE whole + 1

\* base_expectation of computer_bidding_brain, in millionths, from the hand
\* strength in hundredths; player_bid is None or Some(bid)
BaseExpectation(strength, player_bid, g) ==
    LET boosted == (strength + BID_ACCURACY_BOOST) * 10000
        score_diff == g.computer_score - g.player_score
        by_score == IF score_diff > 30 THEN (boosted * 95) \div 100
                    ELSE IF score_diff < -30 THEN (boosted * 105) \div 100
                    ELSE boosted
        by_bags == IF g.computer_bags >= 5 THEN (by_score * 92) \div 100 ELSE by_score
    IN IF IsNone(player_bid) THEN by_bags
       ELSE IF player_bid[1] = 0 THEN by_bags + 300000
       ELSE IF player_bid[1] <= 2 THEN by_bags + 150000
       ELSE IF player_bid[1] >= 7 THEN by_bags - 200000
       ELSE by_bags

\* the 2.5..5.5 adjustment of raw_bid; r1 is the draw random.random() < 0.4
MidRangeAdjust(base_expectation, raw_bid, r1) ==
    IF 2500000 <= base_expectation /\ base_expectation <= 5500000
    THEN IF raw_bid < 3 THEN 3
         ELSE IF raw_bid = 5 /\ r1 THEN 4 ELSE raw_bid
    ELSE raw_bid

Abs(n) == IF n < 0 THEN -n ELSE n

\* the adjustment that avoids a total of about 10; r2 is the draw
\* random.random() < 0.3
TotalAdjust(raw_bid, player_bid, r2) ==
    IF ~IsNone(player_bid) /\ Abs((raw_bid + player_bid[1]) - 10) <= 1 /\ r2
    THEN IF raw_bid > 3 THEN raw_bid - 1
         ELSE IF raw_bid < 7 THEN raw_bid + 1 ELSE raw_bid
    ELSE raw_bid

\* the (bid, is_blind) pairs computer_bidding_brain can return over the two
\* random.random() draws
computer_bidding_brain(computer_hand, player_bid, g) ==
    IF should_bid_nil(computer_hand, g) THEN {<<0, FALSE>>}
    ELSE IF should_bid_blind(computer_hand, g)[1]
    THEN {<<should_bid_blind(computer_hand, g)[2], TRUE>>}
    ELSE
    LET base_expectation ==
            BaseExpectation(analyze_hand_strength(computer_hand), player_bid, g)
    IN {<<Max(1, Min(10,
            TotalAdjust(
                MidRangeAdjust(base_expectation,
                               Max(0, Min(10, RoundMillionths(base_expectation))), r1),
                player_bid, r2))), FALSE>> : r1 \in BOOLEAN, r2 \in BOOLEAN}

\* ValidLead without the rule for spades: any card may be led
ValidLead_without_spades_rule(hand, i, spades_broken) == TRUE

\* whether the card at position i may be led
ValidLead(hand, i, spades_broken) ==
    \/ hand[i].suit # "S"
    \/ spades_broken
    \/ \A k \in 1..Len(hand) : hand[k].suit = "S"

\* "safe", "risky" or "dangerous"
LeadDanger(card) ==
    IF card.suit = "C"
    THEN IF card.rank \in {"J", "Q", "K", "A"} THEN "dangerous"
         ELSE IF card.rank \in {"8", "9", "10"} THEN "risky" ELSE "safe"
    ELSE IF card.suit = "D"
    THEN IF card.rank \in {"J", "Q", "K", "A"} THEN "dangerous"
         ELSE IF card.rank \in {"6", "7", "8"} THEN "risky" ELSE "safe"
    ELSE "safe"

\* the position to lead, or 0 for None (LEAD_SAFETY_CONSIDERATION is True)
computer_lead_strategy(computer_hand, spades_broken) ==
    LET valid_leads == SelectSeq(Positions(computer_hand),
                              LAMBDA i : ValidLead(computer_hand, i, spades_broken))
        of(kind) == SelectSeq(valid_leads, LAMBDA i : LeadDanger(computer_hand[i]) = kind)
        value == [i \in 1..Len(computer_hand) |-> computer_hand[i].value]
    IN IF computer_hand = <<>> THEN 0
       ELSE IF valid_leads = <<>> THEN 0
       ELSE IF of("safe") # <<>> THEN MinFirst(of("safe"), value)
       ELSE IF of("risky") # <<>> THEN MinFirst(of("risky"), value)
       ELSE MinFirst(of("dangerous"), value)

\* the position to follow with, or 0 for None
\* (SPECIAL_CARD_FOLLOWING_PROTECTION is True)
computer_follow_strategy(computer_hand, current_trick, g) ==
    LET computer_bid == IF IsNone(g.computer_bid) THEN 0 ELSE g.computer_bid[1]
        bid_already_made == g.computer_tricks >= computer_bid /\ computer_bid > 0
        lead_card == current_trick[1].card
        lead_suit == lead_card.suit
        lead_value == lead_card.value
        card(i) == computer_hand[i]
        value == [i \in 1..Len(computer_hand) |-> computer_hand[i].value]
        pos == Positions(computer_hand)
        special(i) == IsSpecial(card(i))
        regular(i) == ~IsSpecial(card(i))
        same_suit == SelectSeq(pos, LAMBDA i : card(i).suit = lead_suit /\ regular(i))
        same_suit_special == SelectSeq(pos, LAMBDA i : card(i).suit = lead_suit /\ special(i))
        spades == SelectSeq(pos, LAMBDA i : card(i).suit # lead_suit /\ card(i).suit = "S"
                                         /\ regular(i))
        spades_special == SelectSeq(pos, LAMBDA i : card(i).suit # lead_suit
                                                 /\ card(i).suit = "S" /\ special(i))
        other == SelectSeq(pos, LAMBDA i : card(i).suit # lead_suit /\ card(i).suit # "S"
                                        /\ regular(i))
        other_special == SelectSeq(pos, LAMBDA i : card(i).suit # lead_suit
                                                /\ card(i).suit # "S" /\ special(i))
        all_same_suit == same_suit \o same_suit_special
        all_spades == spades \o spades_special
        all_other == other \o other_special
        winners == SelectSeq(all_same_suit, LAMBDA i : value[i] > lead_value)
        losers == SelectSeq(all_same_suit, LAMBDA i : value[i] <= lead_value)
        winners_regular == SelectSeq(winners, regular)
        winners_special == SelectSeq(winners, special)
        losers_regular == SelectSeq(losers, regular)
        losers_special == SelectSeq(losers, special)
        non_special_other == SelectSeq(all_other, regular)
        non_special_spades == SelectSeq(all_spades, regular)
    IN IF current_trick = <<>> \/ computer_hand = <<>> THEN 0
       ELSE IF all_same_suit # <<>>
       THEN IF bid_already_made
            THEN IF losers_regular # <<>> THEN MaxFirst(losers_regular, value)
                 ELSE IF losers_special # <<>> THEN MaxFirst(losers_special, value)
                 ELSE IF winners_regular # <<>> THEN MinFirst(winners_regular, value)
                 ELSE MinFirst(winners_special, value)
            ELSE IF winners_regular # <<>> THEN MinFirst(winners_regular, value)
                 ELSE IF winners_special # <<>> THEN MinFirst(winners_special, value)
                 ELSE IF losers_regular # <<>> THEN MinFirst(losers_regular, value)
                 ELSE MinFirst(losers_special, value)
       ELSE IF lead_suit # "S" /\ all_spades # <<>>
       THEN IF bid_already_made
            THEN IF all_other # <<>>
                 THEN IF non_special_other # <<>> THEN MinFirst(non_special_other, value)
                      ELSE MinFirst(all_other, value)
                 ELSE IF non_special_spades # <<>> THEN MinFirst(non_special_spades, value)
                      ELSE MinFirst(all_spades, value)
            ELSE IF non_special_spades # <<>> THEN MinFirst(non_special_spades, value)
                 ELSE MinFirst(all_spades, value)
       ELSE IF non_special_other # <<>> THEN MinFirst(non_special_other, value)
            ELSE MinFirst(pos, value)

(***************************************************************************)
(* The deals.  random.shuffle(deck) is one of a few orders of the deck,    *)
(* each given by the deck positions (1..52, create_deck's order) of its    *)
(* first cards; the player gets the first DealSize, the computer the next. *)
(*   spades 1..13, hearts 14..26, diamonds 27..39, clubs 40..52,           *)
(*   each suit from its 2 up to its ace                                    *)
(***************************************************************************)
Shuffles ==
    { \* H3 H9 SA | D7 DK C2 | H5 S2 D4 C4
      <<15, 21, 13, 32, 38, 40, 17, 1, 29, 42>>,
      \* C10 C6 D2 | H4 S3 C9 | DQ S9 H8 C3
      <<48, 44, 27, 16, 2, 47, 37, 8, 20, 41>>,
      \* H2 HK S5 | C10 HQ H7 | D7 D3 S4 C7
      <<14, 25, 4, 48, 24, 19, 32, 28, 3, 45>> }

\* deck[a:b] of the shuffled deck, 0-based and half-open as in Python
DeckSlice(shuffle, a, b) == [k \in 1..(b - a) |-> create_deck[shuffle[a + k]]]

(***************************************************************************)
(* gameplay_logic.py: the game state and the rules of play                 *)
(***************************************************************************)
init_game(parity, shuffle) ==
    [player_hand |-> sort_hand(DeckSlice(shuffle, 0, DealSize)),
     computer_hand |-> sort_hand(DeckSlice(shuffle, DealSize, 2 * DealSize)),
     current_trick |-> <<>>,
     player_tricks |-> 0,
     computer_tricks |-> 0,
     spades_broken |-> FALSE,
     phase |-> "discard",
     turn |-> "player",
     trick_leader |-> "None",
     hand_over |-> FALSE,
     game_over |-> FALSE,
     winner |-> "None",
     player_discarded |-> None,
     computer_discarded |-> None,
     show_computer_hand |-> FALSE,
     player_bid |-> None,
     computer_bid |-> None,
     player_score |-> 0,
     computer_score |-> 0,
     player_bags |-> 0,
     computer_bags |-> 0,
     player_trick_special_cards |-> 0,
     computer_trick_special_cards |-> 0,
     hand_number |-> 1,
     target_score |-> 300,
     player_parity |-> parity.player_parity,
     computer_parity |-> parity.computer_parity,
     first_leader |-> parity.first_leader,
     pending_discard_result |-> None,
     pending_special_discard_result |-> None,
     \* the text of the discard bonus, None until the hand is settled
     discard_bonus_explanation |-> None,
     \* whether the dict holds the two pending_* keys (clear_trick deletes them)
     pending_discard_result_present |-> TRUE,
     pending_special_discard_result_present |-> TRUE,
     blind_bidding_available |-> FALSE,
     blind_bid |-> None,
     computer_blind_bid |-> None,
     trick_history |-> <<>>,
     \* not set by init_game: game.get('trick_completed') is falsy until a trick resolves
     trick_completed |-> FALSE,
     trick_winner |-> "None",
     hand_results |-> None]

\* a faulty variant of init_new_hand: the first leader stays the same; C21
\* can be seen to depend on the flip
init_new_hand_with_same_leader(g, shuffle) ==
    LET blind_eligibility == check_blind_bidding_eligibility(g.player_score, g.computer_score)
    IN [g EXCEPT !.player_hand = sort_hand(DeckSlice(shuffle, 0, DealSize)),
                 !.computer_hand = sort_hand(DeckSlice(shuffle, DealSize, 2 * DealSize)),
                 !.current_trick = <<>>,
                 !.player_tricks = 0,
                 !.computer_tricks = 0,
                 !.spades_broken = FALSE,
                 !.phase = IF blind_eligibility.player_eligible
                           THEN "blind_decision" ELSE "discard",
                 !.turn = "player",
                 !.trick_leader = "None",
                 !.hand_over = FALSE,
                 !.player_discarded = None,
                 !.computer_discarded = None,
                 !.show_computer_hand = FALSE,
                 !.player_bid = None,
                 !.discard_bonus_explanation = None,
                 !.computer_bid = None,
                 !.player_trick_special_cards = 0,
                 !.computer_trick_special_cards = 0,
                 !.pending_discard_result = None,
                 !.pending_special_discard_result = None,
                 !.pending_discard_result_present = TRUE,
                 !.pending_special_discard_result_present = TRUE,
                 !.blind_bidding_available = blind_eligibility.player_eligible,
                 !.blind_bid = None,
                 !.computer_blind_bid = None,
                 !.trick_history = <<>>]

init_new_hand(g, shuffle) ==
    LET next_first_leader == IF g.first_leader = "player" THEN "computer" ELSE "player"
        blind_eligibility == check_blind_bidding_eligibility(g.player_score, g.computer_score)
    IN [g EXCEPT !.player_hand = sort_hand(DeckSlice(shuffle, 0, DealSize)),
                 !.computer_hand = sort_hand(DeckSlice(shuffle, DealSize, 2 * DealSize)),
                 !.current_trick = <<>>,
                 !.player_tricks = 0,
                 !.computer_tricks = 0,
                 !.spades_broken = FALSE,
                 !.phase = IF blind_eligibility.player_eligible
                           THEN "blind_decision" ELSE "discard",
                 !.turn = "player",
                 !.trick_leader = "None",
                 !.hand_over = FALSE,
                 !.player_discarded = None,
                 !.computer_discarded = None,
                 !.show_computer_hand = FALSE,
                 !.player_bid = None,
                 !.discard_bonus_explanation = None,
                 !.computer_bid = None,
                 !.player_trick_special_cards = 0,
                 !.computer_trick_special_cards = 0,
                 !.pending_discard_result = None,
                 !.pending_special_discard_result = None,
                 !.pending_discard_result_present = TRUE,
                 !.pending_special_discard_result_present = TRUE,
                 !.blind_bidding_available = blind_eligibility.player_eligible,
                 !.blind_bid = None,
                 !.computer_blind_bid = None,
                 !.first_leader = next_first_leader,
                 !.trick_history = <<>>]

\* a faulty variant of is_valid_play: a spade may always be led; C14 can be
\* seen to depend on the rule of the lead
is_valid_play_with_any_lead(card, hand, trick, spades_broken) ==
    IF Len(trick) = 0
    THEN TRUE
    ELSE LET lead_suit == trick[1].card.suit
             has_suit == \E k \in 1..Len(hand) : hand[k].suit = lead_suit
         IN IF has_suit THEN card.suit = lead_suit ELSE TRUE

is_valid_play(card, hand, trick, spades_broken) ==
    IF Len(trick) = 0
    THEN ~(card.suit = "S" /\ ~spades_broken /\ \E k \in 1..Len(hand) : hand[k].suit # "S")
    ELSE LET lead_suit == trick[1].card.suit
             has_suit == \E k \in 1..Len(hand) : hand[k].suit = lead_suit
         IN IF has_suit THEN card.suit = lead_suit ELSE TRUE

\* a faulty variant of determine_trick_winner: the higher card wins whatever
\* the suits; C13 can be seen to depend on the suits
determine_trick_winner_by_value_alone(trick) ==
    LET first == trick[1]
        second == trick[2]
    IN IF first.card.value > second.card.value THEN first.player
       ELSE IF second.card.value > first.card.value THEN second.player
       ELSE IF first.card.suit = "S" THEN first.player
       ELSE IF second.card.suit = "S" THEN second.player
       ELSE first.player

\* the winner of a trick of two plays
determine_trick_winner(trick) ==
    LET first == trick[1]
        second == trick[2]
    IN IF first.card.suit = second.card.suit
       THEN IF first.card.value > second.card.value THEN first.player ELSE second.player
       ELSE IF first.card.suit = "S" THEN first.player
       ELSE IF second.card.suit = "S" THEN second.player
       ELSE first.player

\* calc_display_score of check_game_over, get_display_score of app.py
get_display_score(base_score, bags) ==
    IF bags >= 0
    THEN IF base_score < 0 THEN (base_score \div 10) * 10 - bags
         ELSE (base_score \div 10) * 10 + bags
    ELSE base_score

\* a faulty variant of GameOverWinner: no mercy rule; C19 can be seen to
\* depend on the rule
GameOverWinner_without_mercy_rule(g) ==
    LET player_display_score == get_display_score(g.player_score, g.player_bags)
        computer_display_score == get_display_score(g.computer_score, g.computer_bags)
    IN IF player_display_score >= g.target_score
               \/ computer_display_score >= g.target_score
       THEN IF player_display_score > computer_display_score THEN "player"
            ELSE IF computer_display_score > player_display_score THEN "computer"
            ELSE IF g.player_score > g.computer_score THEN "player"
            ELSE IF g.computer_score > g.player_score THEN "computer"
            ELSE IF g.player_bags < 0 /\ g.computer_bags >= 0 THEN "computer"
            ELSE IF g.computer_bags < 0 /\ g.player_bags >= 0 THEN "player"
            ELSE IF g.player_bags < g.computer_bags THEN "player"
            ELSE IF g.computer_bags < g.player_bags THEN "computer"
            ELSE "tie"
       ELSE "None"

\* the winner check_game_over names, or "None" when the game goes on
GameOverWinner(g) ==
    LET player_display_score == get_display_score(g.player_score, g.player_bags)
        computer_display_score == get_display_score(g.computer_score, g.computer_bags)
    IN IF player_display_score - computer_display_score >= 300 THEN "player"
       ELSE IF computer_display_score - player_display_score >= 300 THEN "computer"
       ELSE IF player_display_score >= g.target_score
               \/ computer_display_score >= g.target_score
       THEN IF player_display_score > computer_display_score THEN "player"
            ELSE IF computer_display_score > player_display_score THEN "computer"
            ELSE IF g.player_score > g.computer_score THEN "player"
            ELSE IF g.computer_score > g.player_score THEN "computer"
            ELSE IF g.player_bags < 0 /\ g.computer_bags >= 0 THEN "computer"
            ELSE IF g.computer_bags < 0 /\ g.player_bags >= 0 THEN "player"
            ELSE IF g.player_bags < g.computer_bags THEN "player"
            ELSE IF g.computer_bags < g.player_bags THEN "computer"
            ELSE "tie"
       ELSE "None"

check_game_over(g) ==
    IF GameOverWinner(g) # "None"
    THEN [g EXCEPT !.game_over = TRUE, !.winner = GameOverWinner(g)]
    ELSE g

(***************************************************************************)
(* app.py: trick resolution and the computer's plays                       *)
(***************************************************************************)
\* next((play['card'] for play in trick if play['player'] == side), None)
CardOf(trick, side) ==
    LET plays == SelectSeq(trick, LAMBDA play : play.player = side)
    IN IF plays = <<>> THEN None ELSE Some(plays[1].card)

\* a faulty variant of resolve_trick_with_delay: the reduction is floored at
\* zero bags; C12 can be seen to depend on the reduction having no floor
resolve_trick_with_floor_at_zero(g) ==
    IF Len(g.current_trick) # 2 THEN g
    ELSE
    LET winner == determine_trick_winner(g.current_trick)
        entry == [number |-> Len(g.trick_history) + 1,
                  player_card |-> CardOf(g.current_trick, "player"),
                  computer_card |-> CardOf(g.current_trick, "computer"),
                  winner |-> winner]
        special_result == check_special_cards_in_trick(g.current_trick, winner)
        reduce(side) == special_result.bag_reduction > 0 /\ winner = side
    IN [g EXCEPT
          !.trick_history = Append(@, entry),
          !.player_bags =
              IF reduce("player")
              THEN Max(0, reduce_bags_safely(@, special_result.bag_reduction)) ELSE @,
          !.player_trick_special_cards =
              IF reduce("player") THEN @ + special_result.bag_reduction ELSE @,
          !.computer_bags =
              IF special_result.bag_reduction > 0 /\ winner # "player"
              THEN Max(0, reduce_bags_safely(@, special_result.bag_reduction)) ELSE @,
          !.computer_trick_special_cards =
              IF special_result.bag_reduction > 0 /\ winner # "player"
              THEN @ + special_result.bag_reduction ELSE @,
          !.player_tricks = IF winner = "player" THEN @ + 1 ELSE @,
          !.computer_tricks = IF winner = "player" THEN @ ELSE @ + 1,
          !.trick_completed = TRUE,
          !.trick_winner = winner]

resolve_trick_with_delay(g) ==
    IF Len(g.current_trick) # 2 THEN g
    ELSE
    LET winner == determine_trick_winner(g.current_trick)
        entry == [number |-> Len(g.trick_history) + 1,
                  player_card |-> CardOf(g.current_trick, "player"),
                  computer_card |-> CardOf(g.current_trick, "computer"),
                  winner |-> winner]
        special_result == check_special_cards_in_trick(g.current_trick, winner)
        reduce(side) == special_result.bag_reduction > 0 /\ winner = side
    IN [g EXCEPT
          !.trick_history = Append(@, entry),
          !.player_bags =
              IF reduce("player")
              THEN reduce_bags_safely(@, special_result.bag_reduction) ELSE @,
          !.player_trick_special_cards =
              IF reduce("player") THEN @ + special_result.bag_reduction ELSE @,
          !.computer_bags =
              IF special_result.bag_reduction > 0 /\ winner # "player"
              THEN reduce_bags_safely(@, special_result.bag_reduction) ELSE @,
          !.computer_trick_special_cards =
              IF special_result.bag_reduction > 0 /\ winner # "player"
              THEN @ + special_result.bag_reduction ELSE @,
          !.player_tricks = IF winner = "player" THEN @ + 1 ELSE @,
          !.computer_tricks = IF winner = "player" THEN @ ELSE @ + 1,
          !.trick_completed = TRUE,
          !.trick_winner = winner]

\* the fallback of computer_follow_with_logging when the strategy gives None
FollowFallback(hand, trick) ==
    LET lead_card == trick[1].card
        pos == Positions(hand)
        value == [i \in 1..Len(hand) |-> hand[i].value]
        same_suit == SelectSeq(pos, LAMBDA i : hand[i].suit = lead_card.suit)
        spades == SelectSeq(pos, LAMBDA i : hand[i].suit = "S")
        winners == SelectSeq(same_suit, LAMBDA i : value[i] > lead_card.value)
    IN IF same_suit # <<>>
       THEN IF winners # <<>> THEN MinFirst(winners, value) ELSE MinFirst(same_suit, value)
       ELSE IF lead_card.suit # "S" /\ spades # <<>> THEN MinFirst(spades, value)
       ELSE MinFirst(pos, value)

computer_follow_with_logging(g) ==
    IF g.current_trick = <<>> \/ g.computer_hand = <<>> THEN g
    ELSE
    LET strategy == computer_follow_strategy(g.computer_hand, g.current_trick, g)
        chosen_idx == IF strategy = 0 THEN FollowFallback(g.computer_hand, g.current_trick)
                      ELSE strategy
        card == g.computer_hand[chosen_idx]
    IN [g EXCEPT !.computer_hand = RemoveAt(@, chosen_idx),
                 !.current_trick = Append(@, [player |-> "computer", card |-> card]),
                 !.spades_broken = IF card.suit = "S" THEN TRUE ELSE @]

\* the fallback of computer_lead_with_logging: a position, or 0 when no lead is valid
LeadFallback(hand, spades_broken) ==
    LET valid == SelectSeq(Positions(hand), LAMBDA i : ValidLead(hand, i, spades_broken))
    IN IF valid = <<>> THEN 0
       ELSE MinFirst(valid, [i \in 1..Len(hand) |->
                                (IF hand[i].suit = "S" THEN 100 ELSE 0) + hand[i].value])

computer_lead_with_logging(g) ==
    IF g.computer_hand = <<>> THEN g
    ELSE
    LET strategy == computer_lead_strategy(g.computer_hand, g.spades_broken)
        chosen_idx == IF strategy = 0 THEN LeadFallback(g.computer_hand, g.spades_broken)
                      ELSE strategy
    IN IF chosen_idx = 0 THEN g
       ELSE LET card == g.computer_hand[chosen_idx]
            IN [g EXCEPT !.computer_hand = RemoveAt(@, chosen_idx),
                         !.current_trick = <<[player |-> "computer", card |-> card]>>,
                         !.trick_leader = "computer",
                         !.spades_broken = IF card.suit = "S" THEN TRUE ELSE @]

determine_martha_bids_first(g) ==
    LET diff == g.player_score - g.computer_score
        score_diff == IF diff < 0 THEN -diff ELSE diff
    IN \/ g.computer_score <= g.player_score - 75
       \/ score_diff <= 50 /\ g.hand_number % 2 = 0
       \/ /\ ~IsNone(g.pending_discard_result)
          /\ g.pending_discard_result[1].winner = "computer"

\* game with the computer's bid (bid, is_blind) stored
WithComputerBid(g, cb) ==
    [g EXCEPT !.computer_bid = Some(cb[1]),
              !.computer_blind_bid = IF cb[2] THEN Some(cb[1]) ELSE @]

\* phase 'playing' with the designated first leader; the computer leads at once
StartPlaying(g) ==
    LET g1 == [g EXCEPT !.phase = "playing",
                        !.turn = g.first_leader,
                        !.trick_leader = g.first_leader]
    IN IF g.first_leader = "player" THEN g1
       ELSE [computer_lead_with_logging(g1) EXCEPT !.turn = "player"]

(***************************************************************************)
(* app.py: the request handlers.  For each handler, <Handler>Rejects is    *)
(* the condition of its 400 replies and <handler>(g, ...) is the set of    *)
(* game states an accepted request can leave (a set because of the         *)
(* computer's random draws).                                               *)
(***************************************************************************)
\* the inputs tried: hand indexes around the valid range, bids around 0..10
Indexes == -1..DealSize

Bids == {-1, 0, 1, 2, 5, 11}

BlindBids == {0, 4, 5, 11}

\* a 400 reply: the handler returned before touching the game
Reject(route) == request' = route /\ response' = "error" /\ UNCHANGED game

\* a 200 reply: the handler left one of next_games in the session
Accept(route, next_games) == request' = route /\ response' = "ok" /\ game' \in next_games

ChooseBlindRejects(g) == g.phase # "blind_decision"

choose_blind_bidding(g) == {[g EXCEPT !.phase = "blind_bidding"]}

ChooseBlindBidding ==
    IF ChooseBlindRejects(game) THEN Reject("choose_blind_bidding")
    ELSE Accept("choose_blind_bidding", choose_blind_bidding(game))

ChooseNormalRejects(g) == g.phase # "blind_decision"

choose_normal_bidding(g) == {[g EXCEPT !.phase = "discard"]}

ChooseNormalBidding ==
    IF ChooseNormalRejects(game) THEN Reject("choose_normal_bidding")
    ELSE Accept("choose_normal_bidding", choose_normal_bidding(game))

BlindBidRejects(g, bid) == g.phase # "blind_bidding" \/ bid < 5 \/ bid > 10

make_blind_bid(g, bid) ==
    LET g1 == [g EXCEPT !.blind_bid = Some(bid), !.player_bid = Some(bid)]
    IN {[WithComputerBid(g1, cb) EXCEPT !.phase = "discard"] :
            cb \in computer_bidding_brain(g1.computer_hand, Some(bid), g1)}

MakeBlindBid(bid) ==
    IF BlindBidRejects(game, bid) THEN Reject("blind_bid")
    ELSE Accept("blind_bid", make_blind_bid(game, bid))

\* a faulty variant of the bid gate: the upper limit is off by one, so that
\* C6 can be seen to depend on the gate
BidRejects_upper_limit_off_by_one(g, bid) ==
    g.phase # "bidding" \/ bid < 0 \/ bid > 11

BidRejects(g, bid) == g.phase # "bidding" \/ bid < 0 \/ bid > 10

make_bid(g, bid) ==
    LET g1 == [g EXCEPT !.player_bid = Some(bid)]
    IN IF IsNone(g1.computer_bid)
       THEN {StartPlaying(WithComputerBid(g1, cb)) :
                cb \in computer_bidding_brain(g1.computer_hand, Some(bid), g1)}
       ELSE {StartPlaying(g1)}

MakeBid(bid) ==
    IF BidRejects(game, bid) THEN Reject("bid") ELSE Accept("bid", make_bid(game, bid))

DiscardRejects(g, card_index) ==
    g.phase # "discard" \/ card_index < 0 \/ card_index >= Len(g.player_hand)

\* a faulty variant of discard_card: the discard bonus is added to the scores
\* at once as well as kept pending; C11 can be seen to depend on the deferral
discard_card_with_bonus_at_once(g, card_index) ==
    LET player_card == g.player_hand[card_index + 1]
        g1 == [g EXCEPT !.player_hand = RemoveAt(@, card_index + 1),
                        !.player_discarded = Some(player_card)]
        idx == computer_discard_strategy(g1.computer_hand, g1)
        computer_card == g1.computer_hand[idx]
        discard_result == calculate_discard_score_with_winner(
                              player_card, computer_card,
                              g1.player_parity, g1.computer_parity)
        special_discard_result == check_special_cards_in_discard(
                                      player_card, computer_card, discard_result.winner)
        g2 == [g1 EXCEPT !.computer_hand = RemoveAt(@, idx),
                         !.computer_discarded = Some(computer_card),
                         !.player_score = @ + discard_result.player_bonus,
                         !.computer_score = @ + discard_result.computer_bonus,
                         !.pending_discard_result = Some(discard_result),
                         !.pending_discard_result_present = TRUE,
                         !.pending_special_discard_result = Some(special_discard_result),
                         !.pending_special_discard_result_present = TRUE]
        blind_eligibility == check_blind_bidding_eligibility(g2.player_score, g2.computer_score)
    IN IF ~IsNone(g2.player_bid) THEN {StartPlaying(g2)}
       ELSE IF determine_martha_bids_first(g2)
       THEN {[WithComputerBid(g2, cb) EXCEPT !.phase = "bidding", !.turn = "player"] :
                cb \in computer_bidding_brain(g2.computer_hand, None, g2)}
       ELSE IF blind_eligibility.player_eligible
       THEN {[g2 EXCEPT !.phase = "blind_decision"]}
       ELSE {[g2 EXCEPT !.phase = "bidding", !.turn = "player"]}

discard_card(g, card_index) ==
    LET player_card == g.player_hand[card_index + 1]
        g1 == [g EXCEPT !.player_hand = RemoveAt(@, card_index + 1),
                        !.player_discarded = Some(player_card)]
        idx == computer_discard_strategy(g1.computer_hand, g1)
        computer_card == g1.computer_hand[idx]
        discard_result == calculate_discard_score_with_winner(
                              player_card, computer_card,
                              g1.player_parity, g1.computer_parity)
        special_discard_result == check_special_cards_in_discard(
                                      player_card, computer_card, discard_result.winner)
        g2 == [g1 EXCEPT !.computer_hand = RemoveAt(@, idx),
                         !.computer_discarded = Some(computer_card),
                         !.pending_discard_result = Some(discard_result),
                         !.pending_discard_result_present = TRUE,
                         !.pending_special_discard_result = Some(special_discard_result),
                         !.pending_special_discard_result_present = TRUE]
        blind_eligibility == check_blind_bidding_eligibility(g2.player_score, g2.computer_score)
    IN IF ~IsNone(g2.player_bid) THEN {StartPlaying(g2)}
       ELSE IF determine_martha_bids_first(g2)
       THEN {[WithComputerBid(g2, cb) EXCEPT !.phase = "bidding", !.turn = "player"] :
                cb \in computer_bidding_brain(g2.computer_hand, None, g2)}
       ELSE IF blind_eligibility.player_eligible
       THEN {[g2 EXCEPT !.phase = "blind_decision"]}
       ELSE {[g2 EXCEPT !.phase = "bidding", !.turn = "player"]}

DiscardCard(card_index) ==
    IF DiscardRejects(game, card_index) THEN Reject("discard")
    ELSE Accept("discard", discard_card(game, card_index))

\* a faulty variant of the play gate: the turn is not looked at, so that C5
\* can be seen to depend on the gate
PlayRejects_without_turn_check(g, card_index) ==
    \/ g.phase # "playing"
    \/ card_index < 0
    \/ card_index >= Len(g.player_hand)
    \/ ~is_valid_play(g.player_hand[card_index + 1], g.player_hand,
                      g.current_trick, g.spades_broken)

PlayRejects(g, card_index) ==
    \/ g.phase # "playing"
    \/ g.turn # "player"
    \/ card_index < 0
    \/ card_index >= Len(g.player_hand)
    \/ ~is_valid_play(g.player_hand[card_index + 1], g.player_hand,
                      g.current_trick, g.spades_broken)

\* a faulty variant of play_card: the second test is an "if" in place of the
\* "elif", so the trick the computer just followed is resolved a second time;
\* C4 can be seen to depend on the single resolution
play_card_with_if_for_elif(g, card_index) ==
    LET card == g.player_hand[card_index + 1]
        g1 == [g EXCEPT !.player_hand = RemoveAt(@, card_index + 1),
                        !.current_trick = Append(@, [player |-> "player", card |-> card]),
                        !.spades_broken = IF card.suit = "S" THEN TRUE ELSE @]
        g2 == IF Len(g1.current_trick) = 1
              THEN resolve_trick_with_delay(
                       computer_follow_with_logging(
                           [g1 EXCEPT !.trick_leader = "player", !.turn = "computer"]))
              ELSE g1
    IN IF Len(g2.current_trick) = 2 THEN {resolve_trick_with_delay(g2)} ELSE {g2}

play_card(g, card_index) ==
    LET card == g.player_hand[card_index + 1]
        g1 == [g EXCEPT !.player_hand = RemoveAt(@, card_index + 1),
                        !.current_trick = Append(@, [player |-> "player", card |-> card]),
                        !.spades_broken = IF card.suit = "S" THEN TRUE ELSE @]
    IN IF Len(g1.current_trick) = 1
       THEN {resolve_trick_with_delay(
                computer_follow_with_logging(
                    [g1 EXCEPT !.trick_leader = "player", !.turn = "computer"]))}
       ELSE IF Len(g1.current_trick) = 2 THEN {resolve_trick_with_delay(g1)}
       ELSE {g1}

PlayCard(card_index) ==
    IF PlayRejects(game, card_index) THEN Reject("play")
    ELSE Accept("play", play_card(game, card_index))

\* the settlement of clear_trick's hand-over branch: pending discard results,
\* bid scoring, hand results, game-over check
HandOver(g) ==
    LET discard_result == g.pending_discard_result[1]
        special_discard_result == g.pending_special_discard_result[1]
        g1 == IF g.pending_discard_result_present
              THEN [g EXCEPT
                      !.player_score = @ + discard_result.player_bonus,
                      !.computer_score = @ + discard_result.computer_bonus,
                      !.player_bags =
                          IF g.pending_special_discard_result_present
                             /\ special_discard_result.player_bag_reduction > 0
                          THEN reduce_bags_safely(@, special_discard_result.player_bag_reduction)
                          ELSE @,
                      !.computer_bags =
                          IF g.pending_special_discard_result_present
                             /\ special_discard_result.computer_bag_reduction > 0
                          THEN reduce_bags_safely(@, special_discard_result.computer_bag_reduction)
                          ELSE @,
                      !.discard_bonus_explanation = Some("explanation"),
                      !.pending_discard_result = None,
                      !.pending_discard_result_present = FALSE,
                      !.pending_special_discard_result = None,
                      !.pending_special_discard_result_present = FALSE]
              ELSE g
        g2 == calculate_hand_scores_with_bags(g1)
        g3 == [g2 EXCEPT !.hand_results =
                  Some([hand_number |-> g2.hand_number,
                        totals |-> [player_score |->
                                        get_display_score(g2.player_score, g2.player_bags),
                                    computer_score |->
                                        get_display_score(g2.computer_score, g2.computer_bags)]])]
    IN check_game_over(g3)

\* a faulty variant of clear_trick: the early return for "no trick to clear"
\* is missing; C9 can be seen to depend on it
clear_trick_without_early_return(g) ==
    LET winner == g.trick_winner
        g1 == [g EXCEPT !.current_trick = <<>>,
                        !.trick_completed = FALSE,
                        !.trick_winner = "None"]
    IN IF Len(g1.player_hand) = 0
       THEN {HandOver([g1 EXCEPT !.hand_over = TRUE])}
       ELSE IF winner = "computer"
       THEN {[computer_lead_with_logging(g1) EXCEPT !.turn = "player"]}
       ELSE {[g1 EXCEPT !.turn = "player"]}

\* a faulty variant of clear_trick: the computer does not lead after winning
\* a trick; C25 can be seen to depend on the lead being placed at once
clear_trick_without_computer_lead(g) ==
    IF ~g.trick_completed THEN {g}
    ELSE
    LET g1 == [g EXCEPT !.current_trick = <<>>,
                        !.trick_completed = FALSE,
                        !.trick_winner = "None"]
    IN IF Len(g1.player_hand) = 0
       THEN {HandOver([g1 EXCEPT !.hand_over = TRUE])}
       ELSE {[g1 EXCEPT !.turn = "player"]}

\* clear_trick replies 200 also when there is no trick to clear
clear_trick(g) ==
    IF ~g.trick_completed THEN {g}
    ELSE
    LET winner == g.trick_winner
        g1 == [g EXCEPT !.current_trick = <<>>,
                        !.trick_completed = FALSE,
                        !.trick_winner = "None"]
    IN IF Len(g1.player_hand) = 0
       THEN {HandOver([g1 EXCEPT !.hand_over = TRUE])}
       ELSE IF winner = "computer"
       THEN {[computer_lead_with_logging(g1) EXCEPT !.turn = "player"]}
       ELSE {[g1 EXCEPT !.turn = "player"]}

ClearTrick ==
    /\ request' = "clear_trick"
    /\ response' = "ok"
    /\ game' \in clear_trick(game)

NextHandRejects(g) == ~g.hand_over \/ g.game_over

next_hand(g) ==
    {init_new_hand([g EXCEPT !.hand_number = @ + 1], shuffle) : shuffle \in Shuffles}

\* the model stops dealing after MaxHands hands
NextHand ==
    IF NextHandRejects(game) THEN Reject("next_hand")
    ELSE game.hand_number < MaxHands /\ Accept("next_hand", next_hand(game))

\* a faulty variant of get_state: the computer's hand is sent whenever the
\* game says to show it; C28 can be seen to depend on the test of DEBUG_MODE
get_state_without_debug_test(g, DEBUG_MODE) ==
    LET show_discard_explanation == g.hand_over
        safe_state ==
            [player_hand |-> g.player_hand,
             computer_hand_count |-> IF DEBUG_MODE THEN Len(g.computer_hand) ELSE 0,
             current_trick |-> g.current_trick,
             player_tricks |-> g.player_tricks,
             computer_tricks |-> g.computer_tricks,
             spades_broken |-> g.spades_broken,
             phase |-> g.phase,
             turn |-> g.turn,
             trick_leader |-> g.trick_leader,
             hand_over |-> g.hand_over,
             game_over |-> g.game_over,
             winner |-> g.winner,
             player_discarded |-> g.player_discarded,
             computer_discarded |-> g.computer_discarded,
             show_computer_hand |-> g.show_computer_hand,
             player_bid |-> g.player_bid,
             computer_bid |-> g.computer_bid,
             player_score |-> get_display_score(g.player_score, g.player_bags),
             computer_score |-> get_display_score(g.computer_score, g.computer_bags),
             player_base_score |-> g.player_score,
             computer_base_score |-> g.computer_score,
             player_bags |-> g.player_bags,
             computer_bags |-> g.computer_bags,
             hand_number |-> g.hand_number,
             target_score |-> g.target_score,
             player_parity |-> g.player_parity,
             computer_parity |-> g.computer_parity,
             discard_bonus_explanation |->
                 IF show_discard_explanation THEN g.discard_bonus_explanation ELSE None,
             blind_bidding_available |-> g.blind_bidding_available,
             blind_bid |-> g.blind_bid,
             computer_blind_bid |-> g.computer_blind_bid,
             debug_mode |-> DEBUG_MODE,
             hand_results |-> g.hand_results]
    IN IF g.show_computer_hand
       THEN safe_state @@ ("computer_hand" :> g.computer_hand)
       ELSE safe_state

\* the state sent to the client; DEBUG_MODE is the setting of the running
\* program.  The message and the players' names are not modelled.
get_state(g, DEBUG_MODE) ==
    LET show_discard_explanation == g.hand_over
        safe_state ==
            [player_hand |-> g.player_hand,
             computer_hand_count |-> IF DEBUG_MODE THEN Len(g.computer_hand) ELSE 0,
             current_trick |-> g.current_trick,
             player_tricks |-> g.player_tricks,
             computer_tricks |-> g.computer_tricks,
             spades_broken |-> g.spades_broken,
             phase |-> g.phase,
             turn |-> g.turn,
             trick_leader |-> g.trick_leader,
             hand_over |-> g.hand_over,
             game_over |-> g.game_over,
             winner |-> g.winner,
             player_discarded |-> g.player_discarded,
             computer_discarded |-> g.computer_discarded,
             show_computer_hand |-> g.show_computer_hand /\ DEBUG_MODE,
             player_bid |-> g.player_bid,
             computer_bid |-> g.computer_bid,
             player_score |-> get_display_score(g.player_score, g.player_bags),
             computer_score |-> get_display_score(g.computer_score, g.computer_bags),
             player_base_score |-> g.player_score,
             computer_base_score |-> g.computer_score,
             player_bags |-> g.player_bags,
             computer_bags |-> g.computer_bags,
             hand_number |-> g.hand_number,
             target_score |-> g.target_score,
             player_parity |-> g.player_parity,
             computer_parity |-> g.computer_parity,
             discard_bonus_explanation |->
                 IF show_discard_explanation THEN g.discard_bonus_explanation ELSE None,
             blind_bidding_available |-> g.blind_bidding_available,
             blind_bid |-> g.blind_bid,
             computer_blind_bid |-> g.computer_blind_bid,
             debug_mode |-> DEBUG_MODE,
             hand_results |-> g.hand_results]
    IN IF DEBUG_MODE /\ g.show_computer_hand
       THEN safe_state @@ ("computer_hand" :> g.computer_hand)
       ELSE safe_state

\* GET /state: the reply is the state sent to the client
GetState(DEBUG_MODE) ==
    /\ request' = "state"
    /\ response' = get_state(game, DEBUG_MODE)
    /\ UNCHANGED game

toggle_computer_hand(g) == {[g EXCEPT !.show_computer_hand = ~@]}

ToggleComputerHand(DEBUG_MODE) ==
    IF ~DEBUG_MODE THEN Reject("toggle_computer_hand")
    ELSE Accept("toggle_computer_hand", toggle_computer_hand(game))

(***************************************************************************)
(* The state machine: a new game, then any sequence of requests.           *)
(***************************************************************************)
Init ==
    /\ game \in {init_game(parity, shuffle) :
                    parity \in assign_even_odd_at_game_start, shuffle \in Shuffles}
    /\ request = "new_game"
    /\ response = "ok"

Next ==
    \/ ChooseBlindBidding
    \/ ChooseNormalBidding
    \/ \E bid \in BlindBids : MakeBlindBid(bid)
    \/ \E bid \in Bids : MakeBid(bid)
    \/ \E card_index \in Indexes : DiscardCard(card_index)
    \/ \E card_index \in Indexes : PlayCard(card_index)
    \/ ClearTrick
    \/ NextHand

Spec == Init /\ [][Next]_vars

(***************************************************************************)
(* The last trick of a hand.  The deals of Spec are short and few, so the  *)
(* rules of a trick and of the settlement are also checked from states in  *)
(* which one trick of a hand of the program's size remains: each side      *)
(* holds its last card (or the computer has already led it), and the       *)
(* requests that follow are handled by the handlers above.                 *)
(***************************************************************************)
\* cards dealt to each side, of which one is discarded
ProgramDealSize == 11

\* the tricks of a hand
TricksPerHand == ProgramDealSize - 1

\* the discards of such a hand: the first two of these that are not in play
DiscardPool == <<Card("2", "H"), Card("3", "H"), Card("4", "H"), Card("5", "H")>>

\* a state in the play of a hand at the player's turn: the hands, the trick
\* (empty, or the card the computer led); so_far gives the bids, the tricks
\* the player won, the scores and the bags.  The cards of the earlier tricks
\* are not recorded.
MidHand(player_hand, computer_hand, current_trick, spades_broken, parity, so_far) ==
    LET in_play == {player_hand[k] : k \in 1..Len(player_hand)}
                   \cup {computer_hand[k] : k \in 1..Len(computer_hand)}
                   \cup {current_trick[k].card : k \in 1..Len(current_trick)}
        spare == SelectSeq(DiscardPool, LAMBDA c : c \notin in_play)
        discard_result == calculate_discard_score_with_winner(
                              spare[1], spare[2],
                              parity.player_parity, parity.computer_parity)
        special_discard_result == check_special_cards_in_discard(
                                      spare[1], spare[2], discard_result.winner)
        tricks_played == TricksPerHand - Len(player_hand)
    IN [init_game(parity, CHOOSE shuffle \in Shuffles : TRUE) EXCEPT
          !.player_hand = sort_hand(player_hand),
          !.computer_hand = sort_hand(computer_hand),
          !.current_trick = current_trick,
          !.spades_broken = spades_broken,
          !.phase = "playing",
          !.turn = "player",
          !.trick_leader = IF current_trick = <<>> THEN "player" ELSE "computer",
          !.player_discarded = Some(spare[1]),
          !.computer_discarded = Some(spare[2]),
          !.pending_discard_result = Some(discard_result),
          !.pending_special_discard_result = Some(special_discard_result),
          !.player_bid = Some(so_far.player_bid),
          !.computer_bid = Some(so_far.computer_bid),
          !.blind_bid = IF so_far.player_blind THEN Some(so_far.player_bid) ELSE None,
          !.computer_blind_bid =
              IF so_far.computer_blind THEN Some(so_far.computer_bid) ELSE None,
          !.player_tricks = so_far.player_tricks,
          !.computer_tricks = tricks_played - so_far.player_tricks,
          !.trick_history =
              [k \in 1..tricks_played |->
                  [number |-> k, player_card |-> None, computer_card |-> None,
                   winner |-> IF k <= so_far.player_tricks THEN "player" ELSE "computer"]],
          !.player_score = so_far.player_score,
          !.computer_score = so_far.computer_score,
          !.player_bags = so_far.player_bags,
          !.computer_bags = so_far.computer_bags]

\* the state before the last trick, in which `leader` plays `first` and the
\* other side `second`
LastTrick(first, second, leader, parity, so_far) ==
    IF leader = "player"
    THEN MidHand(<<first>>, <<second>>, <<>>, FALSE, parity, so_far)
    ELSE MidHand(<<second>>, <<>>, <<[player |-> "computer", card |-> first]>>,
                 first.suit = "S", parity, so_far)

\* the requests made from such a state
LastTrickNext ==
    \/ \E card_index \in Indexes : PlayCard(card_index)
    \/ ClearTrick
    \/ NextHand

\* the bag counts (player, computer) tried before the trick
TrickBags == {<<0, 0>>, <<2, -3>>, <<6, 1>>}

\* the deck positions of every two distinct cards
CardPairs == {pair \in (1..52) \X (1..52) : pair[1] # pair[2]}

\* what TrickInit fixes of the hand so far, with the bag counts (player, computer)
TrickSoFar(bags) ==
    [player_bid |-> 4, computer_bid |-> 5,
     player_blind |-> FALSE, computer_blind |-> FALSE,
     player_tricks |-> 4,
     player_score |-> 0, computer_score |-> 0,
     player_bags |-> bags[1], computer_bags |-> bags[2]]

\* every two distinct cards as the last trick, led by either side
TrickInit ==
    /\ game \in {LastTrick(create_deck[pair[1]], create_deck[pair[2]], leader, parity,
                           TrickSoFar(bags)) :
                    pair \in CardPairs, leader \in {"player", "computer"},
                    parity \in assign_even_odd_at_game_start, bags \in TrickBags}
    /\ request = "new_game"
    /\ response = "ok"

TrickSpec == TrickInit /\ [][LastTrickNext]_vars

(***************************************************************************)
(* The player's turn with a few cards left: the hands the player may hold  *)
(* and the cards the computer may have led, for the rule of a legal play.  *)
(***************************************************************************)
\* the most cards the player holds
MaxHeld == 3

\* the cards the player's hand is drawn from: two of each suit
PlayerPool ==
    <<Card("7", "S"), Card("A", "S"), Card("9", "H"), Card("K", "H"),
      Card("8", "D"), Card("Q", "D"), Card("6", "C"), Card("J", "C")>>

\* the cards the computer holds, the first of these as far as needed
ComputerPool == <<Card("8", "H"), Card("2", "D"), Card("4", "S"), Card("3", "C")>>

\* the cards the computer may have led
LeadCards == {Card("10", "H"), Card("6", "D"), Card("3", "S"), Card("9", "C")}

\* the cards of PlayerPool at these positions
Held(positions) ==
    LET chosen == SelectSeq([k \in 1..Len(PlayerPool) |-> k], LAMBDA k : k \in positions)
    IN [i \in 1..Len(chosen) |-> PlayerPool[chosen[i]]]

\* the hand so far: no trick won by the player, nothing scored yet
PlaySoFar ==
    [player_bid |-> 3, computer_bid |-> 3,
     player_blind |-> FALSE, computer_blind |-> FALSE,
     player_tricks |-> 0,
     player_score |-> 0, computer_score |-> 0,
     player_bags |-> 0, computer_bags |-> 0]

\* the player is to lead, or to follow a card the computer led (a spade that
\* was led has broken spades)
PlayInit ==
    /\ game \in
          {MidHand(Held(positions), SubSeq(ComputerPool, 1, Cardinality(positions)),
                   <<>>, spades_broken, parity, PlaySoFar) :
              positions \in {h \in SUBSET (1..Len(PlayerPool)) :
                                Cardinality(h) \in 1..MaxHeld},
              spades_broken \in BOOLEAN, parity \in assign_even_odd_at_game_start}
          \cup
          {MidHand(Held(positions), SubSeq(ComputerPool, 1, Cardinality(positions) - 1),
                   <<[player |-> "computer", card |-> lead]>>,
                   spades_broken \/ lead.suit = "S", parity, PlaySoFar) :
              positions \in {h \in SUBSET (1..Len(PlayerPool)) :
                                Cardinality(h) \in 1..MaxHeld},
              lead \in LeadCards,
              spades_broken \in BOOLEAN, parity \in assign_even_odd_at_game_start}
    /\ request = "new_game"
    /\ response = "ok"

PlaySpec == PlayInit /\ [][LastTrickNext]_vars

(***************************************************************************)
(* The scoring of the discards: discard_card with both discards chosen,    *)
(* for every two cards and either assignment of the parities.  Only the    *)
(* discards and the parities are read.                                     *)
(***************************************************************************)
\* discard_card at the point where both discards are known
DiscardsChosen(player_card, computer_card, parity) ==
    [init_game(parity, CHOOSE shuffle \in Shuffles : TRUE) EXCEPT
        !.player_hand = <<>>,
        !.computer_hand = <<>>,
        !.player_discarded = Some(player_card),
        !.computer_discarded = Some(computer_card)]

\* the part of discard_card that scores the two discards and keeps the results
score_discards(g) ==
    LET discard_result == calculate_discard_score_with_winner(
                              g.player_discarded[1], g.computer_discarded[1],
                              g.player_parity, g.computer_parity)
        special_discard_result == check_special_cards_in_discard(
                                      g.player_discarded[1], g.computer_discarded[1],
                                      discard_result.winner)
    IN [g EXCEPT !.pending_discard_result = Some(discard_result),
                 !.pending_special_discard_result = Some(special_discard_result)]

ScoreDiscards ==
    /\ IsNone(game.pending_discard_result)
    /\ game' = score_discards(game)
    /\ request' = "discard"
    /\ response' = "ok"

DiscardInit ==
    /\ game \in {DiscardsChosen(create_deck[pair[1]], create_deck[pair[2]], parity) :
                    pair \in CardPairs, parity \in assign_even_odd_at_game_start}
    /\ request = "new_game"
    /\ response = "ok"

DiscardSpec == DiscardInit /\ [][ScoreDiscards]_vars

(***************************************************************************)
(* The settlement of a hand: the last trick of hands with every pair of    *)
(* bids and every split of the tricks, then clear_trick's hand-over branch *)
(***************************************************************************)
\* the bag counts (player, computer) before the last trick; a count can be
\* below -4 here, after the reductions of the hand's special cards
SettleBags == {<<0, 0>>, <<5, -4>>, <<-7, 6>>, <<6, 5>>}

\* a blind bid is one of 5..10 (make_blind_bid, should_bid_blind)
BlindFlags(bid) == IF bid >= 5 THEN BOOLEAN ELSE {FALSE}

\* the hands so far: the bids, the blind flags, the tricks the player won
SettleSoFar ==
    {[player_bid |-> player_bid, computer_bid |-> computer_bid,
      player_blind |-> player_blind, computer_blind |-> computer_blind,
      player_tricks |-> player_tricks,
      player_score |-> 0, computer_score |-> 0,
      player_bags |-> bags[1], computer_bags |-> bags[2]] :
        player_bid \in 0..(TricksPerHand), computer_bid \in 0..(TricksPerHand),
        player_blind \in BOOLEAN, computer_blind \in BOOLEAN,
        player_tricks \in 0..(TricksPerHand - 1), bags \in SettleBags}

\* the player leads the last trick and wins it with the king over the queen
\* or loses it with the queen under the king
SettleInit ==
    /\ game \in {LastTrick(Card(ranks[1], "H"), Card(ranks[2], "H"), "player",
                           parity, so_far) :
                    ranks \in {<<"K", "Q">>, <<"Q", "K">>},
                    parity \in assign_even_odd_at_game_start,
                    so_far \in {s \in SettleSoFar :
                                   /\ s.player_blind \in BlindFlags(s.player_bid)
                                   /\ s.computer_blind \in BlindFlags(s.computer_bid)}}
    /\ request = "new_game"
    /\ response = "ok"

SettleSpec == SettleInit /\ [][LastTrickNext]_vars

(***************************************************************************)
(* The end of the game: the last trick of hands whose settlement takes the *)
(* scores to, near and past the target and the mercy lead.  The player has *)
(* bid 4 and holds 4 tricks, the computer has bid 5 and holds 5.           *)
(***************************************************************************)
\* the scores before the settlement
EndPlayerScores == {-60, 150, 230, 240, 250, 260, 270}

EndComputerScores == {-200, -70, 230, 240, 250, 260}

\* the bag counts (player, computer) before the last trick
EndBags == {<<0, 0>>, <<-3, -1>>, <<-1, -3>>, <<-2, 0>>, <<0, -2>>, <<-2, -2>>,
            <<2, 2>>, <<3, 1>>, <<1, 2>>}

EndSoFar ==
    {[player_bid |-> 4, computer_bid |-> 5,
      player_blind |-> FALSE, computer_blind |-> FALSE,
      player_tricks |-> 4,
      player_score |-> player_score, computer_score |-> computer_score,
      player_bags |-> bags[1], computer_bags |-> bags[2]] :
        player_score \in EndPlayerScores, computer_score \in EndComputerScores,
        bags \in EndBags}

EndInit ==
    /\ game \in {LastTrick(Card(ranks[1], "H"), Card(ranks[2], "H"), "player",
                           parity, so_far) :
                    ranks \in {<<"K", "Q">>, <<"Q", "K">>},
                    parity \in assign_even_odd_at_game_start,
                    so_far \in EndSoFar}
    /\ request = "new_game"
    /\ response = "ok"

EndSpec == EndInit /\ [][LastTrickNext]_vars

(***************************************************************************)
(* The bidding of the next hand: a hand whose last trick waits to be       *)
(* cleared, with scores and bags that put one side near 100 behind, then   *)
(* the settlement, the deal of the next hand and its choices, bids and     *)
(* discards, up to the start of play.                                      *)
(***************************************************************************)
\* the scores before the settlement
BiddingPlayerScores == {-150, 0, 10, 20, 130, 160}

BiddingComputerScores == {-20, 0, 60, 80, 100, 110}

\* the bag counts (player, computer) before the last trick
BiddingBags == {<<0, 0>>, <<5, 0>>, <<0, 5>>, <<3, 3>>}

BiddingSoFar ==
    {[player_bid |-> 4, computer_bid |-> 5,
      player_blind |-> FALSE, computer_blind |-> FALSE,
      player_tricks |-> 4,
      player_score |-> player_score, computer_score |-> computer_score,
      player_bags |-> bags[1], computer_bags |-> bags[2]] :
        player_score \in BiddingPlayerScores, computer_score \in BiddingComputerScores,
        bags \in BiddingBags}

\* the last trick has been played and waits to be cleared
BiddingInit ==
    /\ game \in UNION {play_card(LastTrick(Card(ranks[1], "H"), Card(ranks[2], "H"),
                                           "player", parity, so_far), 0) :
                          ranks \in {<<"K", "Q">>, <<"Q", "K">>},
                          parity \in assign_even_odd_at_game_start,
                          so_far \in BiddingSoFar}
    /\ request = "play"
    /\ response = "ok"

\* the requests up to the start of play
BiddingNext ==
    \/ ClearTrick
    \/ NextHand
    \/ ChooseBlindBidding
    \/ ChooseNormalBidding
    \/ \E bid \in BlindBids : MakeBlindBid(bid)
    \/ \E bid \in Bids : MakeBid(bid)
    \/ \E card_index \in Indexes : DiscardCard(card_index)

BiddingSpec == BiddingInit /\ [][BiddingNext]_vars

(***************************************************************************)
(* Auto-resolution: computer_logic.autoplay_remaining_cards and            *)
(* app_helpers.process_auto_resolution, applied to states of a hand of the *)
(* program's size between two tricks.                                      *)
(***************************************************************************)
\* the cards of a hand, as a set
HandCards(hand) == {hand[k] : k \in 1..Len(hand)}

\* set(card['suit'] for card in hand)
SuitsHeld(hand) == {hand[k].suit : k \in 1..Len(hand)}

\* the side that takes the remaining tricks, "None" when nothing is certain:
\* the if/elif chain of autoplay_remaining_cards
winner_of_remaining(g) ==
    LET player_suits == SuitsHeld(g.player_hand)
        computer_suits == SuitsHeld(g.computer_hand)
        winner == g.trick_winner
    IN IF player_suits = {"S"} /\ "S" \notin computer_suits THEN "player"
       ELSE IF computer_suits = {"S"} /\ "S" \notin player_suits THEN "computer"
       ELSE IF winner = "player" /\ Cardinality(player_suits) = 1
       THEN IF player_suits \cap computer_suits = {} /\ "S" \notin computer_suits
            THEN "player" ELSE "None"
       ELSE IF winner = "computer" /\ Cardinality(computer_suits) = 1
       THEN IF computer_suits \cap player_suits = {} /\ "S" \notin player_suits
            THEN "computer" ELSE "None"
       ELSE "None"

\* the remaining tricks awarded to `side`: the tricks counted, one
\* trick_history entry per pair of cards, the hands emptied, the hand over
AwardRemaining(g, side) ==
    LET pairs == IF Len(g.player_hand) < Len(g.computer_hand)
                 THEN Len(g.player_hand) ELSE Len(g.computer_hand)
        current_trick_number == Len(g.trick_history) + 1
    IN [g EXCEPT
          !.player_tricks = IF side = "player" THEN @ + Len(g.player_hand) ELSE @,
          !.computer_tricks = IF side = "computer" THEN @ + Len(g.computer_hand) ELSE @,
          !.trick_history =
              @ \o [k \in 1..pairs |->
                      [number |-> current_trick_number + k - 1,
                       player_card |-> Some(g.player_hand[k]),
                       computer_card |-> Some(g.computer_hand[k]),
                       winner |-> side]],
          !.player_hand = <<>>,
          !.computer_hand = <<>>,
          !.hand_over = TRUE]

\* a faulty variant of autoplay_remaining_cards: the last two tricks are
\* auto-played as well; C27 can be seen to depend on the lower limit of 3
autoplay_remaining_cards_from_two_cards(g) ==
    LET player_hand_size == Len(g.player_hand)
        computer_hand_size == Len(g.computer_hand)
    IN IF player_hand_size = 0 \/ computer_hand_size = 0
       THEN [auto_resolved |-> FALSE, game |-> g]
       ELSE IF player_hand_size < 2 \/ player_hand_size > 9
       THEN [auto_resolved |-> FALSE, game |-> g]
       ELSE IF winner_of_remaining(g) = "None"
       THEN [auto_resolved |-> FALSE, game |-> g]
       ELSE [auto_resolved |-> TRUE, game |-> AwardRemaining(g, winner_of_remaining(g))]

\* (was_auto_resolved, the game as the function leaves it)
autoplay_remaining_cards(g) ==
    LET player_hand_size == Len(g.player_hand)
        computer_hand_size == Len(g.computer_hand)
    IN IF player_hand_size = 0 \/ computer_hand_size = 0
       THEN [auto_resolved |-> FALSE, game |-> g]
       ELSE IF player_hand_size < 3 \/ player_hand_size > 9
       THEN [auto_resolved |-> FALSE, game |-> g]
       ELSE IF winner_of_remaining(g) = "None"
       THEN [auto_resolved |-> FALSE, game |-> g]
       ELSE [auto_resolved |-> TRUE, game |-> AwardRemaining(g, winner_of_remaining(g))]

\* the settlement after an auto-resolution: pending discard results, bid
\* scoring, hand results, and the game-over check unless the game is over
\* already
SettleAutoResolved(g) ==
    LET discard_result == g.pending_discard_result[1]
        special_discard_result == g.pending_special_discard_result[1]
        g1 == IF g.pending_discard_result_present
              THEN [g EXCEPT
                      !.player_score = @ + discard_result.player_bonus,
                      !.computer_score = @ + discard_result.computer_bonus,
                      !.player_bags =
                          IF g.pending_special_discard_result_present
                             /\ special_discard_result.player_bag_reduction > 0
                          THEN reduce_bags_safely(@, special_discard_result.player_bag_reduction)
                          ELSE @,
                      !.computer_bags =
                          IF g.pending_special_discard_result_present
                             /\ special_discard_result.computer_bag_reduction > 0
                          THEN reduce_bags_safely(@, special_discard_result.computer_bag_reduction)
                          ELSE @,
                      !.discard_bonus_explanation = Some("explanation"),
                      !.pending_discard_result = None,
                      !.pending_discard_result_present = FALSE,
                      !.pending_special_discard_result = None,
                      !.pending_special_discard_result_present = FALSE]
              ELSE g
        g2 == calculate_hand_scores_with_bags(g1)
        g3 == [g2 EXCEPT !.hand_results =
                  Some([hand_number |-> g2.hand_number,
                        totals |-> [player_score |->
                                        get_display_score(g2.player_score, g2.player_bags),
                                    computer_score |->
                                        get_display_score(g2.computer_score, g2.computer_bags)]])]
    IN IF g3.game_over THEN g3 ELSE check_game_over(g3)

process_auto_resolution(g) ==
    LET result == autoplay_remaining_cards(g)
    IN IF result.auto_resolved
       THEN [auto_resolved |-> TRUE, game |-> SettleAutoResolved(result.game)]
       ELSE result

\* one call of process_auto_resolution; the reply tells whether it resolved
ProcessAutoResolution ==
    LET result == process_auto_resolution(game)
    IN /\ request' = "auto_resolution"
       /\ response' = IF result.auto_resolved THEN "ok" ELSE "error"
       /\ game' = result.game

\* the numbers of cards each side holds in the states tried: the limits 3
\* and 9 of auto-resolution and their neighbours
AutoSizes == {2, 3, 5, 9, 10}

\* n cards of a suit, from the rank at position `first` of Ranks upwards
\* (and on from "2" after the ace)
OfSuit(suit, n, first) ==
    [k \in 1..n |-> Card(Ranks[((first + k - 2) % 13) + 1], suit)]

\* the make-ups of the player's hand of n cards: spades only, diamonds only
\* from the 7, clubs only, diamonds with a spade, diamonds with a club
PlayerMakeups(n) ==
    {OfSuit("S", n, 1), OfSuit("D", n, 6), OfSuit("C", n, 1),
     OfSuit("D", n - 1, 6) \o <<Card("K", "S")>>,
     OfSuit("D", n - 1, 6) \o <<Card("A", "C")>>}

\* the make-ups of the computer's hand of n cards: spades only, clubs only
\* from the 10, diamonds only, clubs with a spade, clubs with a diamond
ComputerMakeups(n) ==
    {OfSuit("S", n, 8), OfSuit("C", n, 9), OfSuit("D", n, 6),
     OfSuit("C", n - 1, 9) \o <<Card("A", "S")>>,
     OfSuit("C", n - 1, 9) \o <<Card("2", "D")>>}

\* the bag counts (player, computer) before the call
AutoBags == {<<0, 0>>, <<3, 6>>}

AutoSoFar(bags, player_tricks) ==
    [player_bid |-> 4, computer_bid |-> 5,
     player_blind |-> FALSE, computer_blind |-> FALSE,
     player_tricks |-> player_tricks,
     player_score |-> 120, computer_score |-> 90,
     player_bags |-> bags[1], computer_bags |-> bags[2]]

\* the trick that has just been resolved and waits to be cleared, the player
\* having led it; none before the first trick
PendingTrick(winner) ==
    IF winner = "None" THEN <<>>
    ELSE <<[player |-> "player",
            card |-> Card(IF winner = "player" THEN "K" ELSE "Q", "H")],
           [player |-> "computer",
            card |-> Card(IF winner = "player" THEN "Q" ELSE "K", "H")]>>

\* a state between two tricks: a resolved trick waits to be cleared
\* (trick_winner set), or no trick is pending (trick_winner None)
BetweenTricks(player_hand, computer_hand, winner, parity, bags) ==
    LET g == MidHand(player_hand, computer_hand, PendingTrick(winner), FALSE, parity,
                     AutoSoFar(bags, IF winner = "player" THEN 1 ELSE 0))
    IN [g EXCEPT !.trick_completed = (winner # "None"),
                 !.trick_winner = winner,
                 !.trick_leader = "player",
                 !.turn = IF winner = "None" THEN "player" ELSE "computer"]

AutoInit ==
    /\ game \in
          {BetweenTricks(hands[1], hands[2], winner, parity, bags) :
              hands \in UNION {{pair \in PlayerMakeups(n) \X ComputerMakeups(n) :
                                   HandCards(pair[1]) \cap HandCards(pair[2]) = {}} :
                               n \in AutoSizes},
              winner \in {"None", "player", "computer"},
              parity \in assign_even_odd_at_game_start,
              bags \in AutoBags}
    /\ Len(game.player_hand) = TricksPerHand => game.trick_winner = "None"
    /\ request = "play"
    /\ response = "ok"

AutoSpec == AutoInit /\ [][ProcessAutoResolution]_vars

(***************************************************************************)
(* The state sent to the client: the end of a hand and the deal of the     *)
(* next one, with GET /state and the debug toggle under either setting of  *)
(* DEBUG_MODE (the session outlives a restart with another setting).       *)
(***************************************************************************)
StateSoFar ==
    [player_bid |-> 4, computer_bid |-> 5,
     player_blind |-> FALSE, computer_blind |-> FALSE,
     player_tricks |-> 4,
     player_score |-> 100, computer_score |-> 140,
     player_bags |-> 2, computer_bags |-> 0]

StateInit ==
    /\ game \in {LastTrick(create_deck[pair[1]], create_deck[pair[2]], leader, parity,
                           StateSoFar) :
                    pair \in {<<25, 24>>, <<24, 25>>, <<32, 1>>},
                    leader \in {"player", "computer"},
                    parity \in assign_even_odd_at_game_start}
    /\ request = "new_game"
    /\ response = "ok"

StateNext ==
    \/ LastTrickNext
    \/ \E DEBUG_MODE \in BOOLEAN : GetState(DEBUG_MODE)
    \/ \E DEBUG_MODE \in BOOLEAN : ToggleComputerHand(DEBUG_MODE)
    \/ \E card_index \in Indexes : DiscardCard(card_index)

StateSpec == StateInit /\ [][StateNext]_vars

(***************************************************************************)
(* The display score and its reading back: get_display_score of app.py and *)
(* get_base_score_from_display of app_helpers.py, applied one after the    *)
(* other to a base score and a bag count.                                  *)
(***************************************************************************)
get_base_score_from_display(display_score, bags) == display_score - bags

\* the base scores tried: the multiples of 10 from -300 to 300
MaxBaseTens == 30

BaseScores == {10 * tens : tens \in -MaxBaseTens..MaxBaseTens}

\* the bag counts tried
BagCounts == -7..6

ScoreInit ==
    /\ game \in [base_score : BaseScores, bags : BagCounts]
    /\ request = "new"
    /\ response = 0

\* the display score of the base score and the bags
ShowScore ==
    /\ request = "new"
    /\ request' = "get_display_score"
    /\ response' = get_display_score(game.base_score, game.bags)
    /\ UNCHANGED game

\* the display score read back with the same bags
ReadScoreBack ==
    /\ request = "get_display_score"
    /\ request' = "get_base_score_from_display"
    /\ response' = get_base_score_from_display(response, game.bags)
    /\ UNCHANGED game

ScoreNext == ShowScore \/ ReadScoreBack

ScoreSpec == ScoreInit /\ [][ScoreNext]_vars

(***************************************************************************)
(* The computer's moves: the player leads from a few cards, the computer   *)
(* follows from as many, and the side that wins the trick leads the next   *)
(* one.  The hands hold the special cards, spades, and clubs and diamonds  *)
(* of every lead category.                                                 *)
(***************************************************************************)
\* the most cards either side holds
MaxMoveHeld == 3

\* the cards the two hands are drawn from
MovePool ==
    <<Card("5", "S"), Card("J", "S"), Card("9", "H"),
      Card("3", "D"), Card("7", "D"), Card("Q", "D"),
      Card("4", "C"), Card("10", "C"), Card("K", "C")>>

\* the cards of MovePool at these positions
MoveHand(positions) ==
    LET chosen == SelectSeq([k \in 1..Len(MovePool) |-> k], LAMBDA k : k \in positions)
    IN [i \in 1..Len(chosen) |-> MovePool[chosen[i]]]

\* the position sets of the two hands: as many cards each, no card in both
MoveHands ==
    {pair \in (SUBSET (1..Len(MovePool))) \X (SUBSET (1..Len(MovePool))) :
        /\ Cardinality(pair[1]) \in 1..MaxMoveHeld
        /\ Cardinality(pair[2]) = Cardinality(pair[1])
        /\ pair[1] \cap pair[2] = {}}

\* the bids the computer may have made: one it has already met, one it has not
MoveComputerBids == {3, 9}

\* the hand so far: the player won two of the tricks played
MoveSoFar(computer_bid) ==
    [player_bid |-> 3, computer_bid |-> computer_bid,
     player_blind |-> FALSE, computer_blind |-> FALSE,
     player_tricks |-> 2,
     player_score |-> 0, computer_score |-> 0,
     player_bags |-> 0, computer_bags |-> 0]

\* the player is to lead
MoveInit ==
    /\ game \in
          {MidHand(MoveHand(pair[1]), MoveHand(pair[2]), <<>>, spades_broken, parity,
                   MoveSoFar(computer_bid)) :
              pair \in MoveHands, spades_broken \in BOOLEAN,
              parity \in {p \in assign_even_odd_at_game_start : p.first_leader = "player"},
              computer_bid \in MoveComputerBids}
    /\ request = "new_game"
    /\ response = "ok"

MoveSpec == MoveInit /\ [][LastTrickNext]_vars

(***************************************************************************)
(* The computer's bid as a function of its hand, the player's bid, the     *)
(* scores and its bags.                                                    *)
(***************************************************************************)
\* the cards the bidding hands are made of: spades up to five with the top
\* three, aces and a king outside spades, twos and a special card
BrainPool ==
    <<Card("2", "S"), Card("5", "S"), Card("Q", "S"), Card("K", "S"), Card("A", "S"),
      Card("A", "H"), Card("K", "H"), Card("A", "D"), Card("A", "C"),
      Card("2", "H"), Card("2", "D"), Card("7", "D")>>

\* the cards of BrainPool at these positions
BrainHand(positions) ==
    LET chosen == SelectSeq([k \in 1..Len(BrainPool) |-> k], LAMBDA k : k \in positions)
    IN [i \in 1..Len(chosen) |-> BrainPool[chosen[i]]]

\* the player's bid when the computer bids: none yet, nil, a middle or a high bid
BrainPlayerBids == {None, Some(0), Some(5), Some(8)}

\* the scores (player, computer): level, the computer behind by 90, by 100
\* and by 110, and ahead by 50
BrainScores == {<<0, 0>>, <<90, 0>>, <<100, 0>>, <<200, 90>>, <<0, 50>>}

BrainBags == {0, 5}

BrainInit ==
    /\ game \in
          {[computer_hand |-> BrainHand(positions), player_bid |-> player_bid,
            player_score |-> scores[1], computer_score |-> scores[2],
            computer_bags |-> computer_bags] :
              positions \in (SUBSET (1..Len(BrainPool))) \ {{}},
              player_bid \in BrainPlayerBids, scores \in BrainScores,
              computer_bags \in BrainBags}
    /\ request = "new"
    /\ response = <<0, FALSE>>

\* computer_bidding_brain is called: response is the (bid, is_blind) it returns
ComputerBids ==
    /\ request = "new"
    /\ request' = "computer_bidding_brain"
    /\ response' \in computer_bidding_brain(game.computer_hand, game.player_bid, game)
    /\ UNCHANGED game

BrainSpec == BrainInit /\ [][ComputerBids]_vars

(***************************************************************************)
(* The bags through the rest of a hand: the hands hold the special cards,  *)
(* and each side starts from a bag count a settlement can leave, with no   *)
(* special card taken in the hand so far.                                  *)
(***************************************************************************)
\* the positions in MovePool of the cards dealt here: 5S 9H 7D QD 10C KC
BagCards == {1, 3, 5, 6, 8, 9}

\* the bag counts of a side before the tricks played here
BagStarts == {-4, 0, 3, 6}

\* the hand so far: the player bid nil or 3 and won two tricks
BagSoFar ==
    {[player_bid |-> player_bid, computer_bid |-> computer_bid,
      player_blind |-> FALSE, computer_blind |-> FALSE,
      player_tricks |-> 2,
      player_score |-> 0, computer_score |-> 0,
      player_bags |-> player_bags, computer_bags |-> computer_bags] :
        player_bid \in {0, 3}, computer_bid \in MoveComputerBids,
        player_bags \in BagStarts, computer_bags \in BagStarts}

\* the player is to lead
BagInit ==
    /\ game \in
          {MidHand(MoveHand(pair[1]), MoveHand(pair[2]), <<>>, FALSE, parity, so_far) :
              pair \in {p \in MoveHands : p[1] \cup p[2] \subseteq BagCards},
              parity \in {p \in assign_even_odd_at_game_start : p.first_leader = "player"},
              so_far \in BagSoFar}
    /\ request = "new_game"
    /\ response = "ok"

BagSpec == BagInit /\ [][LastTrickNext]_vars

(***************************************************************************)
(* Properties of the trick in progress                                     *)
(***************************************************************************)
\* the number of plays of a side in a trick
PlaysBy(trick, side) == Len(SelectSeq(trick, LAMBDA play : play.player = side))

\* a play-card request with index card_index was accepted in this step
PlayAccepted(card_index) ==
    /\ ~PlayRejects(game, card_index)
    /\ request' = "play"
    /\ response' = "ok"
    /\ game' \in play_card(game, card_index)

\* C1: whenever the current trick holds 0 or 2 plays, player_hand and
\* computer_hand hold the same number of cards.
C1_HandsEqualOutsideSinglePlay ==
    Len(game.current_trick) \in {0, 2}
        => Len(game.player_hand) = Len(game.computer_hand)

\* C2: current_trick holds at most 2 plays, at most one by the player and at
\* most one by the computer.
C2_TrickAtMostTwoPlays ==
    /\ Len(game.current_trick) <= 2
    /\ PlaysBy(game.current_trick, "player") <= 1
    /\ PlaysBy(game.current_trick, "computer") <= 1

\* C3: while a completed trick waits to be cleared (trick_completed is set),
\* every play-card request is rejected and leaves the game as it is, whichever
\* side led the trick.
C3_NoPlayBeforeClear ==
    [][\A card_index \in Indexes :
          (game.trick_completed /\ PlayCard(card_index))
              => (response' = "error" /\ game' = game)]_vars

(***************************************************************************)
(* Properties of trick resolution                                          *)
(***************************************************************************)
\* the tricks counted are the tricks recorded, numbered from 1
TricksMatchHistory(g) ==
    /\ g.player_tricks + g.computer_tricks = Len(g.trick_history)
    /\ \A k \in 1..Len(g.trick_history) : g.trick_history[k].number = k

\* this step recorded exactly one more trick and counted it for exactly one side
OneTrickResolved ==
    /\ Len(game'.trick_history) = Len(game.trick_history) + 1
    /\ SubSeq(game'.trick_history, 1, Len(game.trick_history)) = game.trick_history
    /\ \/ /\ game'.player_tricks = game.player_tricks + 1
          /\ game'.computer_tricks = game.computer_tricks
       \/ /\ game'.player_tricks = game.player_tricks
          /\ game'.computer_tricks = game.computer_tricks + 1

\* C4: a trick that reaches 2 plays is resolved exactly once (one more
\* trick_history entry, one more trick for exactly one side), the history and
\* the counts change in no other step but the deal of a new hand, and in every
\* state player_tricks + computer_tricks is the number of trick_history entries,
\* which are numbered 1..n.
C4_TrickResolvedExactlyOnce ==
    [][/\ TricksMatchHistory(game) /\ TricksMatchHistory(game')
       /\ (Len(game.current_trick) < 2 /\ Len(game'.current_trick) = 2)
              => OneTrickResolved
       /\ <<game'.trick_history, game'.player_tricks, game'.computer_tricks>>
              # <<game.trick_history, game.player_tricks, game.computer_tricks>>
              => \/ Len(game.current_trick) < 2 /\ Len(game'.current_trick) = 2
                 \/ /\ request' = "next_hand"
                    /\ game'.trick_history = <<>>
                    /\ game'.player_tricks = 0 /\ game'.computer_tricks = 0]_vars

\* two tricks were resolved in one hand, one won by each side
C4_Witness ==
    /\ request = "play" /\ response = "ok"
    /\ Len(game.trick_history) = 2
    /\ game.player_tricks = 1 /\ game.computer_tricks = 1
    /\ game.trick_completed

(***************************************************************************)
(* Properties of the gates of the handlers                                 *)
(***************************************************************************)
\* the reply of this step is a failure and the game is as it was
Rejected == response' = "error" /\ game' = game

\* C5: a play-card request made when phase is not 'playing', or turn is not
\* 'player', or with an index outside the player's hand, or with a card that
\* breaks the follow-suit or lead rule, reports failure and leaves every field
\* of the game unchanged.
C5_RejectedPlayChangesNothing ==
    [][\A card_index \in Indexes :
          (/\ PlayCard(card_index)
           /\ \/ game.phase # "playing"
              \/ game.turn # "player"
              \/ card_index < 0
              \/ card_index >= Len(game.player_hand)
              \/ ~is_valid_play(game.player_hand[card_index + 1], game.player_hand,
                                game.current_trick, game.spades_broken))
              => Rejected]_vars

\* a play-card request was refused in phase 'playing' because it was not the
\* player's turn
C5_Witness ==
    /\ request = "play" /\ response = "error"
    /\ game.phase = "playing" /\ game.turn = "computer"
    /\ game.player_hand # <<>>

\* C6: discard outside phase 'discard' or with an index out of range, bid
\* outside phase 'bidding' or outside 0..10, blind bid outside phase
\* 'blind_bidding' or outside 5..10, blind or normal choice outside phase
\* 'blind_decision', and next-hand when the hand is not over or the game is
\* over are all rejected and leave the game unchanged; the same requests
\* inside their gate are accepted.
C6_GatedRequests ==
    [][/\ \A card_index \in Indexes :
             DiscardCard(card_index)
                 => IF \/ game.phase # "discard"
                       \/ card_index < 0
                       \/ card_index >= Len(game.player_hand)
                    THEN Rejected ELSE response' = "ok"
       /\ \A bid \in Bids :
             MakeBid(bid)
                 => IF game.phase # "bidding" \/ bid < 0 \/ bid > 10
                    THEN Rejected ELSE response' = "ok"
       /\ \A bid \in BlindBids :
             MakeBlindBid(bid)
                 => IF game.phase # "blind_bidding" \/ bid < 5 \/ bid > 10
                    THEN Rejected ELSE response' = "ok"
       /\ ChooseBlindBidding
             => IF game.phase # "blind_decision" THEN Rejected ELSE response' = "ok"
       /\ ChooseNormalBidding
             => IF game.phase # "blind_decision" THEN Rejected ELSE response' = "ok"
       /\ NextHand
             => IF ~game.hand_over \/ game.game_over
                THEN Rejected ELSE response' = "ok"]_vars

\* a bid was refused in phase 'bidding', so for its value alone
C6_Witness ==
    /\ request = "bid" /\ response = "error"
    /\ game.phase = "bidding"
(***************************************************************************)
(* Properties of a hand: its discards, its tricks, its end                 *)
(***************************************************************************)
\* C7: in each hand the discard request is accepted exactly once, so one card
\* is discarded by each side; both sides hold DealSize - 1 cards when trick
\* play begins (a card the computer leads at once counts as held); and
\* DealSize - 1 tricks have been recorded when the hand is over.  (DealSize
\* stands for the 11 cards of the program's deal, DealSize - 1 for its 10.)
C7_OneDiscardPerHand ==
    [][/\ \A card_index \in Indexes :
             (DiscardCard(card_index) /\ response' = "ok")
                 => IsNone(game.player_discarded) /\ IsNone(game.computer_discarded)
       /\ (game.phase # "playing" /\ game'.phase = "playing")
             => /\ Len(game'.player_hand) + PlaysBy(game'.current_trick, "player")
                       = DealSize - 1
                /\ Len(game'.computer_hand) + PlaysBy(game'.current_trick, "computer")
                       = DealSize - 1
       /\ game'.hand_over => Len(game'.trick_history) = DealSize - 1]_vars

\* C8: hand_over is never set while either hand holds a card; it is set by
\* the clear-trick step that finds both hands empty, and by no other step.
C8_HandOverWhenBothHandsEmpty ==
    [][/\ game'.hand_over => game'.player_hand = <<>> /\ game'.computer_hand = <<>>
       /\ (~game.hand_over /\ game'.hand_over) => request' = "clear_trick"
       /\ (/\ ClearTrick
           /\ game.trick_completed
           /\ game.player_hand = <<>> /\ game.computer_hand = <<>>)
              => game'.hand_over]_vars

\* the scores and bag counts of a game
Totals(g) == <<g.player_score, g.computer_score, g.player_bags, g.computer_bags>>

\* C9: the settlement of a hand is applied exactly once: the scores change
\* only in the clear-trick step that sets hand_over, which records the hand's
\* results; once hand_over is set no request changes scores or bags, and
\* hand_over is reset only by an accepted next-hand request; hand_number
\* changes only by such a request, by 1.
C9_SettledOncePerHand ==
    [][/\ game.hand_over => Totals(game') = Totals(game)
       /\ <<game'.player_score, game'.computer_score>>
              # <<game.player_score, game.computer_score>>
              => ~game.hand_over /\ game'.hand_over
       /\ (~game.hand_over /\ game'.hand_over)
              => /\ request' = "clear_trick"
                 /\ ~IsNone(game'.hand_results)
                 /\ game'.hand_results[1].hand_number = game.hand_number
       /\ (game.hand_over /\ ~game'.hand_over)
              => request' = "next_hand" /\ response' = "ok"
       /\ game'.hand_number # game.hand_number
              => /\ request' = "next_hand" /\ response' = "ok"
                 /\ game.hand_over
                 /\ game'.hand_number = game.hand_number + 1]_vars

\* the second hand has been settled and a request made after it was refused
C9_Witness ==
    /\ game.hand_over
    /\ game.hand_number = 2
    /\ ~IsNone(game.hand_results) /\ game.hand_results[1].hand_number = 2
    /\ Totals(game) # <<0, 0, 0, 0>>
    /\ request = "play" /\ response = "error"

\* the bags a side earns with its bid and tricks: the tricks of a failed nil,
\* the tricks over a bid that was made
BagsEarned(bid, tricks) ==
    IF bid = 0 THEN tricks ELSE IF tricks >= bid THEN tricks - bid ELSE 0

\* a bag count after its rollovers
RolledOver(bags) == apply_bags_penalty(0, bags)[2]

\* the plays whose special cards this play-card step has to account for: the
\* whole trick when this step completes it, else the plays this step added
PlaysToAccount ==
    IF Len(game.current_trick) < 2 THEN game'.current_trick
    ELSE SubSeq(game'.current_trick, Len(game.current_trick) + 1,
                Len(game'.current_trick))

\* player_bags falls by p and computer_bags by c in this step
BagsFallBy(p, c) ==
    /\ game'.player_bags = game.player_bags - p
    /\ game'.computer_bags = game.computer_bags - c

\* C10: every bag adjustment is applied once, to one side: an accepted play
\* takes the reduction of the special cards played (7 of diamonds 2, 10 of
\* clubs 1) from exactly one side's bags; the step that ends the hand takes the
\* reduction of the special discards from one side, adds each side's bid
\* overage or failed-nil tricks and rolls the counts over; bags change in no
\* other step.
C10_BagAdjustmentsAppliedOnce ==
    [][/\ \A card_index \in Indexes :
             PlayAccepted(card_index)
                 => LET reduction ==
                            SpecialReduction([k \in 1..Len(PlaysToAccount) |->
                                                  PlaysToAccount[k].card])
                    IN BagsFallBy(reduction, 0) \/ BagsFallBy(0, reduction)
       /\ (~game.hand_over /\ game'.hand_over)
             => LET reduction == SpecialReduction(<<game.player_discarded[1],
                                                    game.computer_discarded[1]>>)
                    player_earned == BagsEarned(game.player_bid[1], game.player_tricks)
                    computer_earned ==
                        BagsEarned(game.computer_bid[1], game.computer_tricks)
                IN \/ /\ game'.player_bags =
                             RolledOver(game.player_bags - reduction + player_earned)
                      /\ game'.computer_bags =
                             RolledOver(game.computer_bags + computer_earned)
                   \/ /\ game'.player_bags =
                             RolledOver(game.player_bags + player_earned)
                      /\ game'.computer_bags =
                             RolledOver(game.computer_bags - reduction + computer_earned)
       /\ <<game'.player_bags, game'.computer_bags>>
              # <<game.player_bags, game.computer_bags>>
              => \/ request' = "play" /\ response' = "ok"
                 \/ ~game.hand_over /\ game'.hand_over]_vars

(***************************************************************************)
(* Properties of the discard bonus                                         *)
(***************************************************************************)
\* a bid counts as blind when the blind bid recorded for the hand is this bid
IsBlindBid(blind, bid) == ~IsNone(blind) /\ blind = bid

\* (score, bags) of a side after a settlement that adds the discard bonus,
\* takes the discard reduction, scores the bid and rolls the bags over
SettledWith(score, bags, bonus, reduction, bid, tricks, is_blind) ==
    apply_bags_penalty(score + bonus + HandPoints(bid, tricks, is_blind)[1],
                       bags - reduction + HandPoints(bid, tricks, is_blind)[2])

\* C11: an accepted discard changes neither side's score nor bag count; it
\* stores the parity bonus of the two discards and the reduction of the
\* special cards among them as pending for the side that won the discard
\* pile; the pending results change in no step but a discard, the end of the
\* hand and the next deal; and the step that ends the hand adds the pending
\* bonus to the winner's score and takes the pending reduction from the
\* winner's bags, together with the scoring of the bids.
C11_DiscardBonusDeferred ==
    [][/\ \A card_index \in Indexes :
             (DiscardCard(card_index) /\ response' = "ok")
                 => LET pending == game'.pending_discard_result[1]
                        special == game'.pending_special_discard_result[1]
                        reduction == SpecialReduction(<<game'.player_discarded[1],
                                                        game'.computer_discarded[1]>>)
                    IN /\ Totals(game') = Totals(game)
                       /\ game'.player_discarded = Some(game.player_hand[card_index + 1])
                       /\ pending.winner \in {"player", "computer"}
                       /\ pending.player_bonus + pending.computer_bonus \in {10, 20}
                       /\ pending.player_bonus > 0 <=> pending.winner = "player"
                       /\ pending.computer_bonus > 0 <=> pending.winner = "computer"
                       /\ special.player_bag_reduction =
                              IF pending.winner = "player" THEN reduction ELSE 0
                       /\ special.computer_bag_reduction =
                              IF pending.winner = "computer" THEN reduction ELSE 0
       /\ <<game'.pending_discard_result, game'.pending_special_discard_result>>
              # <<game.pending_discard_result, game.pending_special_discard_result>>
              => \/ request' = "discard" /\ response' = "ok"
                 \/ request' = "next_hand" /\ response' = "ok"
                 \/ ~game.hand_over /\ game'.hand_over
       /\ (~game.hand_over /\ game'.hand_over)
              => LET pending == game.pending_discard_result[1]
                     special == game.pending_special_discard_result[1]
                 IN /\ <<game'.player_score, game'.player_bags>> =
                           SettledWith(game.player_score, game.player_bags,
                                       pending.player_bonus, special.player_bag_reduction,
                                       game.player_bid[1], game.player_tricks,
                                       IsBlindBid(game.blind_bid, game.player_bid))
                    /\ <<game'.computer_score, game'.computer_bags>> =
                           SettledWith(game.computer_score, game.computer_bags,
                                       pending.computer_bonus,
                                       special.computer_bag_reduction,
                                       game.computer_bid[1], game.computer_tricks,
                                       IsBlindBid(game.computer_blind_bid, game.computer_bid))
                    /\ IsNone(game'.pending_discard_result)
                    /\ IsNone(game'.pending_special_discard_result)]_vars

\* the first hand is over, a special card was among its discards, and the
\* reduction reached the bags of the side that won the discard pile
C11_Witness ==
    /\ request = "clear_trick" /\ game.hand_over /\ game.hand_number = 1
    /\ SpecialReduction(<<game.player_discarded[1], game.computer_discarded[1]>>) > 0
    /\ game.player_bags < 0 \/ game.computer_bags < 0
    /\ game.player_score % 100 # 0 \/ game.computer_score % 100 # 0

(***************************************************************************)
(* Properties of a resolved trick                                          *)
(***************************************************************************)
\* the bags a trick of these plays takes from its winner: 2 for the 7 of
\* diamonds, 1 for the 10 of clubs
TrickReduction(trick) ==
    (IF \E k \in 1..Len(trick) : trick[k].card.rank = "7" /\ trick[k].card.suit = "D"
     THEN 2 ELSE 0)
    + (IF \E k \in 1..Len(trick) : trick[k].card.rank = "10" /\ trick[k].card.suit = "C"
       THEN 1 ELSE 0)

\* C12: the play-card step that resolves a trick takes the reduction of the
\* trick's special cards (2 for the 7 of diamonds, 1 for the 10 of clubs, 3
\* for both) from the bags of the trick's winner in that same step, with no
\* floor at zero, and leaves the loser's bags as they were; the trick is
\* still on the table afterwards, to be cleared by a later request.
C12_TrickReductionAtResolution ==
    [][\A card_index \in Indexes :
          (PlayAccepted(card_index)
           /\ Len(game'.trick_history) = Len(game.trick_history) + 1)
              => /\ game'.trick_completed /\ Len(game'.current_trick) = 2
                 /\ game'.trick_winner \in {"player", "computer"}
                 /\ IF game'.trick_winner = "player"
                    THEN BagsFallBy(TrickReduction(game'.current_trick), 0)
                    ELSE BagsFallBy(0, TrickReduction(game'.current_trick))]_vars

\* a trick with both special cards has been resolved and waits to be cleared;
\* its winner's bags have gone below zero
C12_Witness ==
    /\ request = "play" /\ response = "ok"
    /\ game.trick_completed
    /\ TrickReduction(game.current_trick) = 3
    /\ \/ game.trick_winner = "player" /\ game.player_bags = -3
       \/ game.trick_winner = "computer" /\ game.computer_bags = -6

\* C13: the winner of a trick of two plays is the side with the higher card
\* when both cards are of one suit, the side that played the spade when
\* exactly one card is a spade, and the leader when the suits differ and
\* neither card is a spade.
C13_TrickWinner ==
    game.trick_completed
        => LET lead == game.current_trick[1]
               follow == game.current_trick[2]
           IN /\ Len(game.current_trick) = 2
              /\ lead.player # follow.player
              /\ game.trick_winner =
                     IF lead.card.suit = follow.card.suit
                     THEN IF lead.card.value > follow.card.value
                          THEN lead.player ELSE follow.player
                     ELSE IF lead.card.suit = "S" THEN lead.player
                     ELSE IF follow.card.suit = "S" THEN follow.player
                     ELSE lead.player

\* the player led a higher card of another suit than the spade the computer
\* followed with, and the computer won the trick
C13_Witness ==
    /\ game.trick_completed
    /\ game.current_trick[1].player = "player"
    /\ game.current_trick[1].card.suit = "H"
    /\ game.current_trick[2].card.suit = "S"
    /\ game.current_trick[1].card.value > game.current_trick[2].card.value
    /\ game.trick_winner = "computer"

(***************************************************************************)
(* Properties of a legal play                                              *)
(***************************************************************************)
\* hand holds a card of this suit
Holds(hand, suit) == \E k \in 1..Len(hand) : hand[k].suit = suit

\* the rule of a legal play: a lead of a non-spade, a lead of a spade when
\* spades are broken or the hand is all spades, a follow in the lead suit, any
\* follow from a hand without the lead suit
LegalPlay(card, hand, trick, spades_broken) ==
    IF trick = <<>>
    THEN \/ card.suit # "S"
         \/ spades_broken
         \/ \A k \in 1..Len(hand) : hand[k].suit = "S"
    ELSE \/ card.suit = trick[1].card.suit
         \/ ~Holds(hand, trick[1].card.suit)

\* C14: at the player's turn in phase 'playing', a play-card request for a
\* card of the hand is accepted exactly when the play is legal: a lead of a
\* non-spade; a lead of a spade while spades are broken or the hand is all
\* spades; a follow with a card of the lead suit; any follow while the hand
\* holds no card of the lead suit.  Holding a card of the lead suit makes
\* every off-suit follow illegal.
C14_LegalPlay ==
    [][\A card_index \in Indexes :
          (/\ PlayCard(card_index)
           /\ game.phase = "playing" /\ game.turn = "player"
           /\ card_index >= 0 /\ card_index < Len(game.player_hand))
              => LET card == game.player_hand[card_index + 1]
                 IN /\ response' = "ok"
                           <=> LegalPlay(card, game.player_hand,
                                         game.current_trick, game.spades_broken)
                    /\ (/\ game.current_trick # <<>>
                        /\ Holds(game.player_hand, game.current_trick[1].card.suit)
                        /\ card.suit # game.current_trick[1].card.suit)
                           => Rejected
                    /\ response' = "ok"
                           => \E k \in 1..Len(game'.current_trick) :
                                 game'.current_trick[k] = [player |-> "player", card |-> card]]_vars

\* the computer led a heart and the player, left without hearts, was let to
\* follow with a card of another suit
C14_Witness ==
    /\ request = "play" /\ response = "ok"
    /\ Len(game.current_trick) = 2
    /\ game.current_trick[1].player = "computer"
    /\ game.current_trick[1].card.suit = "H"
    /\ game.current_trick[2].card.suit \in {"D", "C"}
    /\ game.player_hand # <<>>
    /\ ~Holds(game.player_hand, "H")

(***************************************************************************)
(* Properties of the discard scoring                                       *)
(***************************************************************************)
\* the value of a rank in the discard sum: ace 1, jack 11, queen 12, king 13,
\* the others their number
DiscardValueOfRank ==
    ("A" :> 1) @@ ("2" :> 2) @@ ("3" :> 3) @@ ("4" :> 4) @@ ("5" :> 5) @@ ("6" :> 6)
    @@ ("7" :> 7) @@ ("8" :> 8) @@ ("9" :> 9) @@ ("10" :> 10)
    @@ ("J" :> 11) @@ ("Q" :> 12) @@ ("K" :> 13)

\* C15: with the two parities assigned to the two sides, the scoring of two
\* distinct discards gives a bonus to exactly one side, the side whose parity
\* is the parity of the sum of the two discard values (A=1, J=11, Q=12, K=13,
\* others face value); the bonus is 20 when the cards share suit or rank and
\* 10 otherwise, and the other side gets 0.
C15_DiscardBonusToOneSide ==
    ~IsNone(game.pending_discard_result)
        => LET result == game.pending_discard_result[1]
               player_card == game.player_discarded[1]
               computer_card == game.computer_discarded[1]
               sum == DiscardValueOfRank[player_card.rank]
                      + DiscardValueOfRank[computer_card.rank]
               sum_parity == IF sum % 2 = 0 THEN "even" ELSE "odd"
               bonus == IF player_card.suit = computer_card.suit
                           \/ player_card.rank = computer_card.rank
                        THEN 20 ELSE 10
           IN /\ game.player_parity # game.computer_parity
              /\ player_card # computer_card
              /\ result.total = sum
              /\ IF game.player_parity = sum_parity
                 THEN /\ result.winner = "player"
                      /\ result.player_bonus = bonus /\ result.computer_bonus = 0
                 ELSE /\ game.computer_parity = sum_parity
                      /\ result.winner = "computer"
                      /\ result.computer_bonus = bonus /\ result.player_bonus = 0

\* a king and an ace of different suits were discarded (sum 14, even) and
\* the computer, holding 'even', got the bonus of 10
C15_Witness ==
    /\ ~IsNone(game.pending_discard_result)
    /\ game.player_discarded[1].rank = "K" /\ game.computer_discarded[1].rank = "A"
    /\ game.player_discarded[1].suit # game.computer_discarded[1].suit
    /\ game.computer_parity = "even"
    /\ game.pending_discard_result[1].computer_bonus = 10
    /\ game.pending_discard_result[1].player_bonus = 0

(***************************************************************************)
(* Properties of the settlement                                            *)
(***************************************************************************)
\* (points, bags) of a bid with the tricks taken: a nil made, a nil failed, a
\* bid made, a bid failed
PointsAndBags(bid, tricks) ==
    IF bid = 0 /\ tricks = 0 THEN <<100, 0>>
    ELSE IF bid = 0 THEN <<-100, tricks>>
    ELSE IF tricks >= bid THEN <<10 * bid, tricks - bid>>
    ELSE <<-(10 * bid), 0>>

\* this step ends the hand
HandEnds == ~game.hand_over /\ game'.hand_over

\* the pending discard bonus of a side, and the pending reduction of its bags
PendingBonus(g, side) ==
    IF side = "player" THEN g.pending_discard_result[1].player_bonus
    ELSE g.pending_discard_result[1].computer_bonus

PendingReduction(g, side) ==
    IF side = "player" THEN g.pending_special_discard_result[1].player_bag_reduction
    ELSE g.pending_special_discard_result[1].computer_bag_reduction

\* C16: at the settlement of a hand a side whose bid is not blind gets, next
\* to its discard bonus, +100 and no bag for a nil with 0 tricks, -100 and k
\* bags for a nil with k > 0 tricks, +10*b and t-b bags for a bid b > 0 with
\* t >= b tricks, -10*b and no bag for a bid b > 0 with t < b tricks; the
\* points go to its cumulative score and the bags to its cumulative bags,
\* which are then rolled over.  Bids and trick counts range over 0..10.
C16_HandPointsAndBags ==
    [][HandEnds
          => /\ game.player_bid[1] \in 0..10 /\ game.computer_bid[1] \in 0..10
             /\ game.player_tricks + game.computer_tricks = 10
             /\ IsNone(game.blind_bid)
                   => <<game'.player_score, game'.player_bags>> =
                          apply_bags_penalty(
                              game.player_score + PendingBonus(game, "player")
                                  + PointsAndBags(game.player_bid[1], game.player_tricks)[1],
                              game.player_bags - PendingReduction(game, "player")
                                  + PointsAndBags(game.player_bid[1], game.player_tricks)[2])
             /\ IsNone(game.computer_blind_bid)
                   => <<game'.computer_score, game'.computer_bags>> =
                          apply_bags_penalty(
                              game.computer_score + PendingBonus(game, "computer")
                                  + PointsAndBags(game.computer_bid[1],
                                                  game.computer_tricks)[1],
                              game.computer_bags - PendingReduction(game, "computer")
                                  + PointsAndBags(game.computer_bid[1],
                                                  game.computer_tricks)[2])]_vars

\* a hand was settled in which the player bid 4 and took 10 tricks (+40 and
\* 6 bags) and the computer bid nil and took none (+100), from scores of 0
C16_Witness ==
    /\ game.hand_over /\ request = "clear_trick"
    /\ game.player_bid = Some(4) /\ game.player_tricks = 10
    /\ game.computer_bid = Some(0) /\ game.computer_tricks = 0
    /\ IsNone(game.blind_bid) /\ IsNone(game.computer_blind_bid)
    /\ game.player_bags = 6
    /\ game.player_score + game.computer_score = 40 + 100 + 20

\* C17: at the settlement a bid flagged blind scores twice the points of the
\* same bid not flagged, when it is made and when it fails (blind 5 with 5
\* tricks +100, with 3 tricks -100), with the same bags; a bid that is not
\* flagged scores them once; and the flags of a hand are cleared when the next
\* hand is dealt, which is the only step that changes them here, so they
\* double nothing in a later hand.
C17_BlindBidDoubles ==
    [][/\ HandEnds
             => /\ <<game'.player_score, game'.player_bags>> =
                       apply_bags_penalty(
                           game.player_score + PendingBonus(game, "player")
                               + (IF IsBlindBid(game.blind_bid, game.player_bid)
                                  THEN 2 ELSE 1)
                                 * PointsAndBags(game.player_bid[1], game.player_tricks)[1],
                           game.player_bags - PendingReduction(game, "player")
                               + PointsAndBags(game.player_bid[1], game.player_tricks)[2])
                /\ <<game'.computer_score, game'.computer_bags>> =
                       apply_bags_penalty(
                           game.computer_score + PendingBonus(game, "computer")
                               + (IF IsBlindBid(game.computer_blind_bid, game.computer_bid)
                                  THEN 2 ELSE 1)
                                 * PointsAndBags(game.computer_bid[1],
                                                 game.computer_tricks)[1],
                           game.computer_bags - PendingReduction(game, "computer")
                               + PointsAndBags(game.computer_bid[1],
                                               game.computer_tricks)[2])
                /\ (game.player_bid = Some(5) /\ game.blind_bid = Some(5)
                    /\ game.player_tricks \in {3, 5} /\ game.player_bags = 0)
                       => game'.player_score =
                              game.player_score + PendingBonus(game, "player")
                                  + (IF game.player_tricks = 5 THEN 100 ELSE -100)
       /\ (request' = "next_hand" /\ response' = "ok")
             => IsNone(game'.blind_bid) /\ IsNone(game'.computer_blind_bid)
       /\ <<game'.blind_bid, game'.computer_blind_bid>>
              # <<game.blind_bid, game.computer_blind_bid>>
             => request' = "next_hand" /\ response' = "ok"]_vars

\* a hand in which the player's blind bid of 5 failed with 3 tricks has been
\* settled at -100 for the bid (before the discard bonus), while the
\* computer's bid of 7, not blind, was made and scored 70
C17_Witness ==
    /\ game.hand_over /\ request = "clear_trick"
    /\ game.blind_bid = Some(5) /\ game.player_bid = Some(5)
    /\ game.player_tricks = 3
    /\ IsNone(game.computer_blind_bid) /\ game.computer_bid = Some(7)
    /\ game.player_score \in {-100, -80}
    /\ game.computer_score \in {70, 90}

\* the rollover took (score, bags) to (score2, bags2): bags2 lies strictly
\* between -5 and 7; from 7 or more bags whole sevens were removed, each for
\* 100 points; from -5 or fewer whole fives were added, each for 100 points;
\* otherwise nothing changed
RolloverOf(score, bags, score2, bags2) ==
    /\ -5 < bags2 /\ bags2 < 7
    /\ IF bags >= 7
       THEN /\ bags2 >= 0
            /\ (bags - bags2) % 7 = 0
            /\ score2 + 100 * ((bags - bags2) \div 7) = score
       ELSE IF bags <= -5
       THEN /\ bags2 <= 0
            /\ (bags2 - bags) % 5 = 0
            /\ score2 - 100 * ((bags2 - bags) \div 5) = score
       ELSE bags2 = bags /\ score2 = score

\* (score, bags) of a side before the rollover of the settlement
BeforeRollover(g, side) ==
    IF side = "player"
    THEN <<g.player_score + PendingBonus(g, "player")
               + HandPoints(g.player_bid[1], g.player_tricks,
                            IsBlindBid(g.blind_bid, g.player_bid))[1],
           g.player_bags - PendingReduction(g, "player")
               + HandPoints(g.player_bid[1], g.player_tricks,
                            IsBlindBid(g.blind_bid, g.player_bid))[2]>>
    ELSE <<g.computer_score + PendingBonus(g, "computer")
               + HandPoints(g.computer_bid[1], g.computer_tricks,
                            IsBlindBid(g.computer_blind_bid, g.computer_bid))[1],
           g.computer_bags - PendingReduction(g, "computer")
               + HandPoints(g.computer_bid[1], g.computer_tricks,
                            IsBlindBid(g.computer_blind_bid, g.computer_bid))[2]>>

\* C18: the settlement rolls each side's bags over: 100 points and 7 bags are
\* taken off while the bags are 7 or more, 100 points and 5 bags are added
\* while they are -5 or less, so that after the settlement each bag count lies
\* strictly between -5 and 7 and the score differs from the score before the
\* rollover by 100 for every 7 bags removed and every 5 bags added; a side
\* with 5 bags that adds 2 loses exactly 100 points and ends with 0 bags.
C18_BagRollover ==
    [][HandEnds
          => /\ RolloverOf(BeforeRollover(game, "player")[1],
                           BeforeRollover(game, "player")[2],
                           game'.player_score, game'.player_bags)
             /\ RolloverOf(BeforeRollover(game, "computer")[1],
                           BeforeRollover(game, "computer")[2],
                           game'.computer_score, game'.computer_bags)
             /\ (game.player_bags = 5 /\ BeforeRollover(game, "player")[2] = 7)
                   => /\ game'.player_bags = 0
                      /\ game'.player_score = BeforeRollover(game, "player")[1] - 100
             /\ (game.computer_bags = 5 /\ BeforeRollover(game, "computer")[2] = 7)
                   => /\ game'.computer_bags = 0
                      /\ game'.computer_score = BeforeRollover(game, "computer")[1] - 100]_vars

\* a hand was settled in which the player, with 6 bags, bid 2 and took 10
\* tricks: 14 bags, rolled over twice to 0, and a score of 20 - 200 and the
\* discard bonus
C18_Witness ==
    /\ game.hand_over /\ request = "clear_trick"
    /\ game.player_bid = Some(2) /\ game.player_tricks = 10
    /\ game.player_bags = 0
    /\ game.player_score \in {-180, -160}

(***************************************************************************)
(* Properties of the end of the game                                       *)
(***************************************************************************)
\* the display scores of a game
PlayerDisplay(g) == get_display_score(g.player_score, g.player_bags)

ComputerDisplay(g) == get_display_score(g.computer_score, g.computer_bags)

\* one side's display score leads the other's by 300 or more
MercyLead(g) ==
    \/ PlayerDisplay(g) - ComputerDisplay(g) >= 300
    \/ ComputerDisplay(g) - PlayerDisplay(g) >= 300

C20_TargetScoreWinner ==
    [][(HandEnds /\ game'.game_over /\ ~MercyLead(game'))
          => game'.winner =
                 IF PlayerDisplay(game') > ComputerDisplay(game') THEN "player"
                 ELSE IF ComputerDisplay(game') > PlayerDisplay(game') THEN "computer"
                 ELSE IF game'.player_score > game'.computer_score THEN "player"
                 ELSE IF game'.computer_score > game'.player_score THEN "computer"
                 ELSE IF Abs(game'.player_bags) < Abs(game'.computer_bags) THEN "player"
                 ELSE IF Abs(game'.computer_bags) < Abs(game'.player_bags) THEN "computer"
                 ELSE "tie"]_vars

(***************************************************************************)
(* Properties of the deal of the next hand                                 *)
(***************************************************************************)
\* the cards of a hand, as a set
CardsOf(hand) == {hand[k] : k \in 1..Len(hand)}

\* the other side
Opponent(side) == IF side = "player" THEN "computer" ELSE "player"

\* C21: an accepted next-hand request adds exactly 1 to hand_number, deals
\* each side a fresh hand of DealSize cards (DealSize stands for the 11 of
\* the program's deal) with no card dealt twice, makes the other side the
\* first leader, resets the tricks, the bids, the blind flags, the discards,
\* spades_broken and trick_history, and leaves both scores, both bag counts
\* and both parities as they were.
C21_NextHandDeals ==
    [][(request' = "next_hand" /\ response' = "ok")
          => /\ game'.hand_number = game.hand_number + 1
             /\ Len(game'.player_hand) = DealSize
             /\ Len(game'.computer_hand) = DealSize
             /\ Cardinality(CardsOf(game'.player_hand) \cup CardsOf(game'.computer_hand))
                    = 2 * DealSize
             /\ CardsOf(game'.player_hand) \cup CardsOf(game'.computer_hand)
                    \subseteq CardsOf(create_deck)
             /\ game'.first_leader = Opponent(game.first_leader)
             /\ game'.player_tricks = 0 /\ game'.computer_tricks = 0
             /\ IsNone(game'.player_bid) /\ IsNone(game'.computer_bid)
             /\ IsNone(game'.blind_bid) /\ IsNone(game'.computer_blind_bid)
             /\ IsNone(game'.player_discarded) /\ IsNone(game'.computer_discarded)
             /\ ~game'.spades_broken
             /\ game'.trick_history = <<>>
             /\ game'.current_trick = <<>>
             /\ ~game'.hand_over
             /\ Totals(game') = Totals(game)
             /\ game'.player_parity = game.player_parity
             /\ game'.computer_parity = game.computer_parity]_vars

\* the second hand has been dealt after a first hand that left scores and
\* bags, and the computer, which did not lead the first hand, is to lead it
C21_Witness ==
    /\ request = "next_hand" /\ response = "ok"
    /\ game.hand_number = 2
    /\ game.player_score # 0 /\ game.computer_score # 0
    /\ game.player_bags # 0
    /\ game.first_leader = "computer" /\ game.player_parity = "odd"

(***************************************************************************)
(* Properties of blind bidding                                             *)
(***************************************************************************)
\* how far a side's display score is behind the other's
DisplayDeficit(g, side) ==
    IF side = "player" THEN ComputerDisplay(g) - PlayerDisplay(g)
    ELSE PlayerDisplay(g) - ComputerDisplay(g)

\* C22: the deal of a hand offers the player blind bidding (phase
\* 'blind_decision', blind_bidding_available set) exactly when the player's
\* display score is at least 100 behind the computer's; a discard leads to
\* 'blind_decision' only then; and the computer bids blind only when its
\* display score is at least 100 behind the player's.
C22_BlindOfferByDisplayScore ==
    [][/\ (request' = "next_hand" /\ response' = "ok")
             => /\ game'.phase = "blind_decision"
                       <=> DisplayDeficit(game', "player") >= 100
                /\ game'.blind_bidding_available
                       <=> DisplayDeficit(game', "player") >= 100
       /\ (request' = "discard" /\ response' = "ok" /\ game'.phase = "blind_decision")
             => DisplayDeficit(game', "player") >= 100
       /\ (IsNone(game.computer_blind_bid) /\ ~IsNone(game'.computer_blind_bid))
             => DisplayDeficit(game', "computer") >= 100]_vars


\* C23: phase 'blind_decision' is entered at most once per hand: only the
\* deal of a hand enters it, so once the player has answered the choice no
\* later request of that hand puts the phase back to 'blind_decision'.
C23_BlindDecisionOncePerHand ==
    [][(game.phase # "blind_decision" /\ game'.phase = "blind_decision")
          => game'.hand_number # game.hand_number]_vars


(***************************************************************************)
(* Properties of the start and the course of trick play                    *)
(***************************************************************************)
\* the request that completes the bidding: an accepted bid, or the accepted
\* discard that follows a blind bid
BiddingCompleted ==
    /\ response' = "ok"
    /\ \/ request' = "bid"
       \/ request' = "discard" /\ ~IsNone(game.player_bid)

\* the side holding the lead has led: the player is to lead into an empty
\* trick, or the computer's lead lies in the trick and the player follows
LeadTaken(before, after, leader) ==
    /\ after.turn = "player"
    /\ IF leader = "player"
       THEN after.current_trick = <<>>
       ELSE /\ Len(after.current_trick) = 1
            /\ after.current_trick[1].player = "computer"
            /\ after.current_trick[1].card \in CardsOf(before.computer_hand)
            /\ after.current_trick[1].card \notin CardsOf(after.computer_hand)
            /\ after.trick_leader = "computer"

\* C24: an accepted bid, or the discard following an accepted blind bid,
\* moves the phase to 'playing' with both bids set and the designated first
\* leader leading: the player leads into an empty trick, or the computer's
\* lead is already in current_trick with trick_leader 'computer' and the
\* turn is the player's.
C24_PlayStartsWithFirstLeader ==
    [][BiddingCompleted
          => /\ game'.phase = "playing"
             /\ ~IsNone(game'.player_bid) /\ ~IsNone(game'.computer_bid)
             /\ game'.first_leader = game.first_leader
             /\ LeadTaken(game, game', game.first_leader)]_vars


C26_BlindNilEndsGame ==
    [][/\ (game.phase \in {"blind_decision", "blind_bidding"} /\ MakeBlindBid(0))
             => /\ response' = "ok"
                /\ game'.player_bid = Some(0)
                /\ game'.blind_bid = Some(0)
       /\ (HandEnds /\ game.player_bid = Some(0) /\ game.blind_bid = Some(0))
             => /\ game'.game_over
                /\ game'.winner = IF game'.player_tricks = 0 THEN "player"
                                  ELSE "computer"]_vars


(***************************************************************************)
(* Properties of auto-resolution                                           *)
(***************************************************************************)
\* the outcome of the remaining tricks is certain for `side`: it holds only
\* spades and the other side none, or it won the last trick and holds a
\* single suit of which the other side has none, the other side having no
\* spades either
CertainFor(g, side) ==
    LET own == SuitsHeld(IF side = "player" THEN g.player_hand ELSE g.computer_hand)
        other == SuitsHeld(IF side = "player" THEN g.computer_hand ELSE g.player_hand)
    IN \/ own = {"S"} /\ "S" \notin other
       \/ /\ g.trick_winner = side
          /\ Cardinality(own) = 1
          /\ own \cap other = {}
          /\ "S" \notin other

\* a call of process_auto_resolution that resolved the hand
AutoResolved == request' = "auto_resolution" /\ response' = "ok" /\ ~game.hand_over

\* the trick_history entries added by the step are well formed: numbered on
\* from the entries before, one per pair of cards held, won by `side`
EntriesAdded(side) ==
    LET before == Len(game.trick_history)
        held == Len(game.player_hand)
    IN /\ Len(game'.trick_history) = before + held
       /\ SubSeq(game'.trick_history, 1, before) = game.trick_history
       /\ \A k \in 1..held :
             game'.trick_history[before + k] =
                 [number |-> before + k,
                  player_card |-> Some(game.player_hand[k]),
                  computer_card |-> Some(game.computer_hand[k]),
                  winner |-> side]

MaxPlayedOut == 5

\* the games at the end of the hand when the remaining tricks are played one
\* by one: every clear-trick and every accepted play-card from g onwards
RECURSIVE PlayedOut(_)
PlayedOut(g) ==
    IF g.hand_over THEN {g}
    ELSE IF g.trick_completed THEN UNION {PlayedOut(h) : h \in clear_trick(g)}
    ELSE UNION {PlayedOut(h) :
                   h \in UNION {play_card(g, card_index) :
                                   card_index \in {i \in 0..(Len(g.player_hand) - 1) :
                                                      ~PlayRejects(g, i)}}}

\* what a hand leaves behind: the trick counts, the bags and the scores
Outcome(g) ==
    [player_tricks |-> g.player_tricks, computer_tricks |-> g.computer_tricks,
     player_bags |-> g.player_bags, computer_bags |-> g.computer_bags,
     player_score |-> g.player_score, computer_score |-> g.computer_score]

\* C30: auto-resolution is a pure shortcut: the trick counts, bags and scores
\* it leaves after the settlement are those of playing the remaining tricks
\* one by one through play-card and clear-trick, the bag reduction of a
\* special card in the auto-resolved tricks included.
C30_AutoResolutionIsShortcut ==
    [][(AutoResolved /\ Len(game.player_hand) <= MaxPlayedOut)
          => /\ PlayedOut(game) # {}
             /\ \A end \in PlayedOut(game) : Outcome(end) = Outcome(game')]_vars


(***************************************************************************)
(* Properties of the state sent to the client                              *)
(***************************************************************************)
\* hands the computer might hold instead
OtherHands ==
    {<<>>, <<Card("A", "S")>>, <<Card("7", "D"), Card("10", "C")>>,
     <<Card("2", "C"), Card("9", "H"), Card("K", "S")>>}

OddSide(g) == IF g.player_parity = "odd" THEN "player" ELSE "computer"

\* C29: the two sides hold complementary parities, which no request
\* changes; the side of odd parity is the first leader of hand 1, and the
\* first leader changes sides at every accepted next-hand request and at no
\* other request.
C29_ParitiesAndFirstLeader ==
    /\ [](/\ {game.player_parity, game.computer_parity} = {"even", "odd"}
          /\ game.hand_number = 1 => game.first_leader = OddSide(game))
    /\ [][/\ game'.player_parity = game.player_parity
          /\ game'.computer_parity = game.computer_parity
          /\ game'.first_leader =
                 IF request' = "next_hand" /\ response' = "ok"
                 THEN Opponent(game.first_leader) ELSE game.first_leader]_vars

C29_Witness ==
    /\ request = "next_hand" /\ response = "ok"
    /\ game.hand_number = 2
    /\ game.player_parity = "odd" /\ game.computer_parity = "even"
    /\ game.first_leader = "computer"


(***************************************************************************)
(* Properties of the display score                                         *)
(***************************************************************************)
\* C31: get_base_score_from_display is the inverse of get_display_score: for
\* every base score that is a multiple of 10 and every bag count in -7..6,
\* reading the display score back with the same bags gives the base score.
C31_DisplayScoreRoundTrip ==
    request = "get_base_score_from_display" => response = game.base_score


(***************************************************************************)
(* Properties of spades_broken                                             *)
(***************************************************************************)
\* the step leaves a spade as the second play of the trick
SpadePlayedOffLead ==
    /\ Len(game'.current_trick) >= 2
    /\ game'.current_trick[2].card.suit = "S"

\* C32: spades_broken is false at the start of every hand, becomes true only
\* when a spade is played off-lead (as the second play of a trick), never
\* goes back to false within the hand, and is reset by next-hand.
C32_SpadesBroken ==
    /\ [](game.trick_history = <<>> /\ game.current_trick = <<>> => ~game.spades_broken)
    /\ [][/\ (~game.spades_broken /\ game'.spades_broken) => SpadePlayedOffLead
          /\ (game.spades_broken /\ game'.hand_number = game.hand_number)
                => game'.spades_broken
          /\ (request' = "next_hand" /\ response' = "ok") => ~game'.spades_broken]_vars


(***************************************************************************)
(* Properties of the computer's moves                                      *)
(***************************************************************************)
\* the step takes exactly this card out of the computer's hand
ComputerPlayed(card) ==
    /\ card \in CardsOf(game.computer_hand)
    /\ Len(game'.computer_hand) = Len(game.computer_hand) - 1
    /\ CardsOf(game'.computer_hand) = CardsOf(game.computer_hand) \ {card}

\* the step is an accepted play in which the player leads to a computer that
\* holds a card
ComputerToFollow ==
    /\ request' = "play" /\ response' = "ok"
    /\ game.current_trick = <<>>
    /\ game.computer_hand # <<>>

\* the step gives the lead to a computer that holds a card: a trick the
\* computer won is cleared before the end of the hand, or the bidding ends
\* and the computer is the first leader
ComputerToLead ==
    /\ game.computer_hand # <<>>
    /\ response' = "ok"
    /\ \/ /\ request' = "clear_trick"
          /\ game.trick_completed /\ game.trick_winner = "computer"
          /\ Len(game.player_hand) > 0
       \/ /\ request' \in {"bid", "blind_bid"}
          /\ game'.phase = "playing"
          /\ game.first_leader = "computer"

\* the fallbacks of the computer's two moves choose a legal card of the hand
FallbacksLegal ==
    game.computer_hand # <<>> =>
        /\ LeadFallback(game.computer_hand, game.spades_broken)
               \in 1..Len(game.computer_hand)
        /\ LegalPlay(game.computer_hand[LeadFallback(game.computer_hand,
                                                     game.spades_broken)],
                     game.computer_hand, <<>>, game.spades_broken)
        /\ \A k \in 1..Len(game.player_hand) :
              LET trick == <<[player |-> "player", card |-> game.player_hand[k]]>>
              IN /\ FollowFallback(game.computer_hand, trick)
                        \in 1..Len(game.computer_hand)
                 /\ LegalPlay(game.computer_hand[FollowFallback(game.computer_hand, trick)],
                              game.computer_hand, trick, game.spades_broken)

\* C33: whenever it is the computer's move with a non-empty hand, the
\* computer plays exactly one card and that card is legal under the rule
\* applied to the player (following: the lead suit if held; leading: a spade
\* only if spades are broken or the hand is all spades); the fallback used
\* when a strategy returns no choice is a legal card too.
C33_ComputerPlaysOneLegalCard ==
    /\ []FallbacksLegal
    /\ [][/\ ComputerToFollow =>
                /\ Len(game'.current_trick) = 2
                /\ game'.current_trick[2].player = "computer"
                /\ ComputerPlayed(game'.current_trick[2].card)
                /\ LegalPlay(game'.current_trick[2].card, game.computer_hand,
                             <<game'.current_trick[1]>>, game.spades_broken)
          /\ ComputerToLead =>
                /\ Len(game'.current_trick) = 1
                /\ game'.current_trick[1].player = "computer"
                /\ ComputerPlayed(game'.current_trick[1].card)
                /\ LegalPlay(game'.current_trick[1].card, game.computer_hand,
                             <<>>, game.spades_broken)]_vars

\* the computer has followed with a spade to a lead of another suit and then
\* led to the next trick
C33_Witness ==
    /\ request = "clear_trick"
    /\ Len(game.current_trick) = 1
    /\ game.current_trick[1].player = "computer"
    /\ Len(game.trick_history) > TricksPerHand - MaxMoveHeld
    /\ LET last == game.trick_history[Len(game.trick_history)]
       IN /\ last.computer_card # None
          /\ last.computer_card[1].suit = "S"
          /\ last.player_card[1].suit # "S"


\* C34: when leading, the computer never leads a special card (the 7 of
\* diamonds or the 10 of clubs) while it holds at least one legal
\* non-special lead.
C34_NoSpecialLeadWhenAvoidable ==
    [][(/\ ComputerToLead
        /\ Len(game'.current_trick) = 1
        /\ IsSpecial(game'.current_trick[1].card))
          => ~\E k \in 1..Len(game.computer_hand) :
                 /\ ~IsSpecial(game.computer_hand[k])
                 /\ LegalPlay(game.computer_hand[k], game.computer_hand, <<>>,
                              game.spades_broken)]_vars


\* a non-special card of the suit of lead that beats it
BeatsPlainly(card, lead) ==
    /\ ~IsSpecial(card)
    /\ card.suit = lead.suit
    /\ card.value > lead.value

\* C35: when the player leads a special card and the computer holds a
\* non-special card of the lead suit that beats it, the computer plays a
\* non-special winning card, whether or not it has met its bid.
C35_SpecialLeadIsTaken ==
    [][(/\ ComputerToFollow
        /\ Len(game'.current_trick) = 2
        /\ IsSpecial(game'.current_trick[1].card)
        /\ \E k \in 1..Len(game.computer_hand) :
              BeatsPlainly(game.computer_hand[k], game'.current_trick[1].card))
          => BeatsPlainly(game'.current_trick[2].card, game'.current_trick[1].card)]_vars


(***************************************************************************)
(* Properties of the computer's bid                                        *)
(***************************************************************************)
\* the computer is eligible for a blind bid
ComputerEligible ==
    check_blind_bidding_eligibility(game.player_score,
                                    game.computer_score).computer_eligible

\* C36: the computer's bid is an integer in 0..10: 0 only on the nil path,
\* exactly 5 with the blind flag whenever the computer is blind-eligible and
\* does not bid nil, otherwise a non-blind bid in 1..10; the blind flag is
\* never returned when the computer is not eligible.
C36_ComputerBid ==
    request = "computer_bidding_brain" =>
        /\ response[1] \in 0..10
        /\ response[1] = 0 => should_bid_nil(game.computer_hand, game)
        /\ ComputerEligible /\ response[1] # 0 => response = <<5, TRUE>>
        /\ ~ComputerEligible /\ response[1] # 0
              => response[1] \in 1..10 /\ ~response[2]
        /\ response[2] => ComputerEligible

\* an eligible computer has bid 5 blind
C36_Witness ==
    /\ request = "computer_bidding_brain"
    /\ ComputerEligible
    /\ response = <<5, TRUE>>

\* the other outcomes happen: nil by an eligible computer, and the bids 1 and 10
C36_WitnessNil ==
    /\ request = "computer_bidding_brain"
    /\ ComputerEligible /\ response = <<0, FALSE>>

C36_WitnessTen == request = "computer_bidding_brain" /\ response = <<10, FALSE>>

C36_WitnessOne == request = "computer_bidding_brain" /\ response = <<1, FALSE>>


(***************************************************************************)
(* Properties of the cards of a hand                                       *)
(***************************************************************************)
\* the tricks of trick_history that have been cleared: all but a trick that
\* is still on the table
ClearedTricks(g) ==
    IF g.trick_completed /\ g.trick_history # <<>>
    THEN SubSeq(g.trick_history, 1, Len(g.trick_history) - 1)
    ELSE g.trick_history

RECURSIVE HistoryCards(_)
\* the cards recorded in these tricks, one after the other
HistoryCards(tricks) ==
    IF tricks = <<>> THEN <<>>
    ELSE tricks[1].player_card \o tricks[1].computer_card \o HistoryCards(Tail(tricks))

\* every place a card of the hand can be, one after the other
CardPlaces(g) ==
    g.player_hand \o g.computer_hand \o g.player_discarded \o g.computer_discarded
    \o [k \in 1..Len(g.current_trick) |-> g.current_trick[k].card]
    \o HistoryCards(ClearedTricks(g))

\* C37: cards are conserved within a hand: player_hand, computer_hand, the
\* two discard slots, current_trick and the trick_history entries of cleared
\* tricks are pairwise disjoint and together exactly the cards dealt; no card
\* is played twice and none disappears.
C37_CardsConserved ==
    /\ [](/\ Len(CardPlaces(game)) = 2 * DealSize
          /\ Cardinality(CardsOf(CardPlaces(game))) = 2 * DealSize)
    /\ [][game'.hand_number = game.hand_number
            => CardsOf(CardPlaces(game')) = CardsOf(CardPlaces(game))]_vars


(***************************************************************************)
(* Properties of the scores and the bags in every state                    *)
(***************************************************************************)
\* C38: both base scores are multiples of 10 in every reachable state.
C38_BaseScoresMultiplesOfTen ==
    /\ game.player_score % 10 = 0
    /\ game.computer_score % 10 = 0

\* a hand has been settled and changed both scores
C38_Witness ==
    /\ game.hand_over
    /\ game.player_score # 0
    /\ game.computer_score # 0


\* the bag count of this side
BagsOf(g, side) == IF side = "player" THEN g.player_bags ELSE g.computer_bags

\* the reductions this side has taken with special cards won in tricks of
\* the hand
TakenInTricks(g, side) ==
    IF side = "player" THEN g.player_trick_special_cards
    ELSE g.computer_trick_special_cards

\* C39: each side's bag count stays within -7..6 in every reachable state:
\* within -4..6 after every settlement, and within a hand it can only
\* decrease, by at most 3 in total (the reductions of the special cards the
\* side wins in tricks).
C39_BagsInRange ==
    /\ [](\A side \in {"player", "computer"} :
             /\ BagsOf(game, side) \in -7..6
             /\ game.hand_over => BagsOf(game, side) \in -4..6
             /\ ~game.hand_over => TakenInTricks(game, side) \in 0..3)
    /\ [][(game'.hand_number = game.hand_number /\ ~game'.hand_over)
            => \A side \in {"player", "computer"} :
                  /\ BagsOf(game', side) <= BagsOf(game, side)
                  /\ BagsOf(game, side) - BagsOf(game', side)
                        = TakenInTricks(game', side) - TakenInTricks(game, side)]_vars
    /\ [][(request' = "next_hand" /\ response' = "ok")
            => \A side \in {"player", "computer"} :
                  /\ BagsOf(game', side) = BagsOf(game, side)
                  /\ TakenInTricks(game', side) = 0]_vars

\* a side that started the tricks at -4 has taken both special cards
C39_Witness ==
    /\ ~game.hand_over
    /\ \E side \in {"player", "computer"} :
          BagsOf(game, side) = -7 /\ TakenInTricks(game, side) = 3


(***************************************************************************)
(* Properties of progress                                                  *)
(***************************************************************************)
\* some request of the player is accepted and acts: a discard, a blind
\* choice, a bid, a play of a card of the hand, a clear-trick of a pending
\* trick or a next-hand
CanAct(g) ==
    \/ \E card_index \in 0..(Len(g.player_hand) - 1) : ~DiscardRejects(g, card_index)
    \/ ~ChooseBlindRejects(g)
    \/ ~ChooseNormalRejects(g)
    \/ \E bid \in 0..10 : ~BlindBidRejects(g, bid) \/ ~BidRejects(g, bid)
    \/ \E card_index \in 0..(Len(g.player_hand) - 1) : ~PlayRejects(g, card_index)
    \/ g.trick_completed
    \/ ~NextHandRejects(g)

\* the player is to play: phase 'playing', no trick pending, the hand not over
PlayerToPlay(g) == g.phase = "playing" /\ ~g.trick_completed /\ ~g.hand_over

\* C40: the machine never gets stuck: in every reachable state with game_over
\* false at least one player action is accepted, and whenever phase is
\* 'playing', no trick is pending and the hand is not over, turn is 'player'
\* and the player holds a legal card (so that a player who keeps acting
\* brings every hand to hand_over).
C40_NeverStuck ==
    ~game.game_over =>
        /\ CanAct(game)
        /\ PlayerToPlay(game) =>
              /\ game.turn = "player"
              /\ \E k \in 1..Len(game.player_hand) :
                    LegalPlay(game.player_hand[k], game.player_hand,
                              game.current_trick, game.spades_broken)

====
